---- MODULE Spec2Model ----
(***************************************************************************)
(* A model of the Game Boy CPU emulator of deepconcern/gameboy_rust: the   *)
(* opcode-pattern expansion and the dispatch table (opcode.rs,             *)
(* emulator.rs add_instruction), the memory bus (memory_mapping.rs and the *)
(* memory components), and the fetch-decode-execute step with the          *)
(* instruction bodies (emulator.rs process_opcode, instruction/*.rs).      *)
(*                                                                         *)
(* Bytes are 0..255 and words 0..65535; the arithmetic of the source is    *)
(* written out with its width.  A Rust panic (an index out of bounds, an   *)
(* arithmetic overflow in a build with overflow checks, the panic! of      *)
(* add_instruction) ends the program: it sets aborted and nothing runs     *)
(* afterwards.  An overflowing +, - on u16 panics in a build with overflow *)
(* checks and wraps in one without; overflow_checks is the build, drawn in *)
(* the initial state.                                                      *)
(***************************************************************************)
EXTENDS Integers, Sequences, FiniteSets, TLC

VARIABLES
  \* struct Emulator (emulator.rs 20-34)
  cycles_processed, flags, instructions, instruction_map,
  interrupt_master_enable, jumped, name_map, prefixed, program_counter,
  registers, stack_pointer, state,
  \* struct MemoryMapping (memory_mapping.rs 3-6)
  components, memory_mapping,
  \* the run: whether a panic ended the program, the build, the value the
  \* last call returned, and the position of the construction
  aborted, overflow_checks, result, installed,
  \* bookkeeping for the properties: calls counted since the last reset of
  \* the cycle counter, the steps taken, and what each step did
  bus_reads, bus_writes, pc_sets, steps, trace

emulatorVars == << cycles_processed, flags, interrupt_master_enable, jumped,
                   prefixed, program_counter, registers, stack_pointer, state >>
tableVars == << instructions, instruction_map, name_map, installed >>
busVars == << components, memory_mapping >>
runVars == << aborted, overflow_checks, result >>
countVars == << bus_reads, bus_writes, pc_sets, steps, trace >>
vars == << emulatorVars, tableVars, busVars, runVars, countVars >>

Byte == 0..255
Word == 0..65535

\* body on the value of v, computed once
Let(v, body(_)) == CHOOSE y \in { body(x) : x \in {v} } : TRUE

(***************************************************************************)
(* Bit operations on bytes.                                                *)
(***************************************************************************)
RECURSIVE BitAnd(_, _)
BitAnd(a, b) ==
  IF a = 0 \/ b = 0 THEN 0
  ELSE (a % 2) * (b % 2) + 2 * BitAnd(a \div 2, b \div 2)

RECURSIVE BitOr(_, _)
BitOr(a, b) ==
  IF a = 0 THEN b
  ELSE IF b = 0 THEN a
  ELSE (IF a % 2 = 1 \/ b % 2 = 1 THEN 1 ELSE 0) + 2 * BitOr(a \div 2, b \div 2)

RECURSIVE BitXor(_, _)
BitXor(a, b) ==
  IF a = 0 THEN b
  ELSE IF b = 0 THEN a
  ELSE ((a + b) % 2) + 2 * BitXor(a \div 2, b \div 2)

\* !x on a u8
BitNot(a) == 255 - a

RECURSIVE trailing_zeros(_)
trailing_zeros(mask) ==
  IF mask = 0 THEN 8
  ELSE IF mask % 2 = 1 THEN 0 ELSE 1 + trailing_zeros(mask \div 2)

RECURSIVE Pow2(_)
Pow2(n) == IF n = 0 THEN 1 ELSE 2 * Pow2(n - 1)

\* u16::from_le_bytes([low, high]) and u16::to_le_bytes
from_le_bytes(low, high) == low + 256 * high
to_le_bytes(value) == << value % 256, value \div 256 >>

(***************************************************************************)
(* opcode.rs: the expansion of a bit-pattern template.  A template is the  *)
(* sequence of its characters.                                             *)
(***************************************************************************)
TWO_BIT_VARIATIONS == << <<"0","0">>, <<"0","1">>, <<"1","0">>, <<"1","1">> >>
THREE_BIT_VARIATIONS ==
  << <<"0","0","0">>, <<"0","0","1">>, <<"0","1","0">>, <<"0","1","1">>,
     <<"1","0","0">>, <<"1","0","1">>, <<"1","1","0">>, <<"1","1","1">> >>

REGISTER_PATTERN_A == <<"r","r","r">>
REGISTER_PATTERN_B == <<"q","q","q">>
\* The register field ranging over all eight codes, 110 among them
REGISTER_VARIATIONS_all_eight == THREE_BIT_VARIATIONS
REGISTER_VARIATIONS ==
  << <<"0","0","0">>, <<"0","0","1">>, <<"0","1","0">>, <<"0","1","1">>,
     <<"1","0","0">>, <<"1","0","1">>, <<"1","1","1">> >>
REGISTER_PAIR_PATTERN_A == <<"s","s">>
REGISTER_PAIR_PATTERN_B == <<"d","d">>
BIT_PATTERN == <<"b","b","b">>
CONDITION_PATTERN == <<"c","c">>
MEMORY_PATTERN == <<"t","t","t">>

\* str::contains
RECURSIVE contains(_, _)
contains(s, pat) ==
  IF Len(s) < Len(pat) THEN FALSE
  ELSE IF SubSeq(s, 1, Len(pat)) = pat THEN TRUE
  ELSE contains(Tail(s), pat)

\* str::replace: every non-overlapping match, from the left
RECURSIVE replace(_, _, _)
replace(s, pat, to) ==
  IF Len(s) < Len(pat) \/ Len(pat) = 0 THEN s
  ELSE IF SubSeq(s, 1, Len(pat)) = pat
       THEN to \o replace(SubSeq(s, Len(pat) + 1, Len(s)), pat, to)
       ELSE << Head(s) >> \o replace(Tail(s), pat, to)

\* process pushing the string of the first variation only
process_first_variation_only(opcode_string, pattern, variations) ==
  IF contains(opcode_string, pattern)
  THEN << TRUE, << replace(opcode_string, pattern, variations[1]) >> >>
  ELSE << FALSE, << >> >>

\* process: << whether the pattern was found, the strings it pushes >>
process(opcode_string, pattern, variations) ==
  IF contains(opcode_string, pattern)
  THEN << TRUE, [i \in 1..Len(variations) |->
                  replace(opcode_string, pattern, variations[i])] >>
  ELSE << FALSE, << >> >>

\* u8::from_str_radix(s, 2): -1 stands for Err
RECURSIVE from_str_radix(_)
from_str_radix(s) ==
  IF Len(s) = 0 THEN -1
  ELSE IF s[Len(s)] \notin {"0", "1"} THEN -1
  ELSE IF Len(s) = 1 THEN (IF s[1] = "1" THEN 1 ELSE 0)
  ELSE LET rest == from_str_radix(SubSeq(s, 1, Len(s) - 1))
           v == 2 * rest + (IF s[Len(s)] = "1" THEN 1 ELSE 0)
       IN IF rest = -1 \/ v > 255 THEN -1 ELSE v

\* The patterns in the order the loop of opcodes tries them.
PatternOrder ==
  << << REGISTER_PATTERN_A, REGISTER_VARIATIONS >>,
     << REGISTER_PATTERN_B, REGISTER_VARIATIONS >>,
     << REGISTER_PAIR_PATTERN_A, TWO_BIT_VARIATIONS >>,
     << REGISTER_PAIR_PATTERN_B, TWO_BIT_VARIATIONS >>,
     << CONDITION_PATTERN, TWO_BIT_VARIATIONS >>,
     << BIT_PATTERN, THREE_BIT_VARIATIONS >>,
     << MEMORY_PATTERN, THREE_BIT_VARIATIONS >> >>

\* The first pattern of PatternOrder, from position k on, that the string
\* contains; 0 when none does.
RECURSIVE FirstPattern(_, _)
FirstPattern(opcode_string, k) ==
  IF k > Len(PatternOrder) THEN 0
  ELSE IF contains(opcode_string, PatternOrder[k][1]) THEN k
  ELSE FirstPattern(opcode_string, k + 1)

\* The while loop of opcodes, from the string it pops: the loop takes the
\* strings a process call pushed off the stack before any string below
\* them, so what it does with one string is what it does with the strings
\* pushed for it, one after the other.  The result is [panic, opcodes]:
\* whether a string failed to parse, and the bytes inserted.
RECURSIVE opcodes_loop(_)
opcodes_loop(opcode_string) ==
  LET k == FirstPattern(opcode_string, 1)
      pushed == process(opcode_string, PatternOrder[k][1], PatternOrder[k][2])[2]
      expanded == { opcodes_loop(pushed[i]) : i \in 1..Len(pushed) }
  IN IF k > 0
     THEN [panic |-> \E x \in expanded : x.panic,
           opcodes |-> UNION { x.opcodes : x \in expanded }]
     ELSE IF from_str_radix(opcode_string) = -1
          THEN [panic |-> TRUE, opcodes |-> {}]
          ELSE [panic |-> FALSE, opcodes |-> {from_str_radix(opcode_string)}]

\* OpcodePattern::opcodes for &str
opcodes(pattern) == opcodes_loop(SelectSeq(pattern, LAMBDA c : c /= " "))

(***************************************************************************)
(* The instruction records (instruction.rs 61-66): name, op (the name of   *)
(* the body), pattern and requires_prefix.                                 *)
(***************************************************************************)
\* arithmetic_instructions.rs: the instructions add_arithmetic_instructions installs, in its order.
add_arithmetic_instructions ==
  << [name |-> "ADD A, (HL)", op |-> "add_hl_location_to_a", requires_prefix |-> FALSE,
      pattern |-> <<"1", "0", " ", "0", "0", "0", " ", "1", "1", "0">>],
     [name |-> "ADD SP, e", op |-> "add_immediate_e_to_sp", requires_prefix |-> FALSE,
      pattern |-> <<"1", "1", " ", "1", "0", "1", " ", "0", "0", "0">>],
     [name |-> "ADD A, n", op |-> "add_immediate_n_to_a", requires_prefix |-> FALSE,
      pattern |-> <<"1", "1", " ", "0", "0", "0", " ", "1", "1", "0">>],
     [name |-> "ADD HL, ss", op |-> "add_register_pair_to_hl", requires_prefix |-> FALSE,
      pattern |-> <<"0", "0", " ", "s", "s", "1", " ", "0", "0", "1">>],
     [name |-> "ADD A, r", op |-> "add_register_to_a", requires_prefix |-> FALSE,
      pattern |-> <<"1", "0", " ", "0", "0", "0", " ", "r", "r", "r">>],
     [name |-> "ADC A, (HL)", op |-> "add_with_carry_hl_location_to_a", requires_prefix |-> FALSE,
      pattern |-> <<"1", "0", " ", "0", "0", "1", " ", "1", "1", "0">>],
     [name |-> "ADC A, n", op |-> "add_with_carry_immediate_n_to_a", requires_prefix |-> FALSE,
      pattern |-> <<"1", "1", " ", "0", "0", "1", " ", "1", "1", "0">>],
     [name |-> "ADC A, r", op |-> "add_with_carry_register_to_a", requires_prefix |-> FALSE,
      pattern |-> <<"1", "0", " ", "0", "0", "1", " ", "r", "r", "r">>],
     [name |-> "CP (HL)", op |-> "compare_hl_location_with_a", requires_prefix |-> FALSE,
      pattern |-> <<"1", "0", " ", "1", "1", "1", " ", "1", "1", "0">>],
     [name |-> "CP n", op |-> "compare_immediate_n_with_a", requires_prefix |-> FALSE,
      pattern |-> <<"1", "1", " ", "1", "1", "1", " ", "1", "1", "0">>],
     [name |-> "CP r", op |-> "compare_register_with_a", requires_prefix |-> FALSE,
      pattern |-> <<"1", "0", " ", "1", "1", "1", " ", "r", "r", "r">>],
     [name |-> "DEC (HL)", op |-> "dec_hl_location", requires_prefix |-> FALSE,
      pattern |-> <<"0", "0", " ", "1", "1", "0", " ", "1", "0", "1">>],
     [name |-> "DEC r", op |-> "dec_register", requires_prefix |-> FALSE,
      pattern |-> <<"0", "0", " ", "r", "r", "r", " ", "1", "0", "1">>],
     [name |-> "DEC ss", op |-> "dec_register_pair", requires_prefix |-> FALSE,
      pattern |-> <<"0", "0", " ", "s", "s", "1", " ", "0", "1", "1">>],
     [name |-> "INC (HL)", op |-> "inc_hl_location", requires_prefix |-> FALSE,
      pattern |-> <<"0", "0", " ", "1", "1", "0", " ", "1", "0", "0">>],
     [name |-> "INC r", op |-> "inc_register", requires_prefix |-> FALSE,
      pattern |-> <<"0", "0", " ", "r", "r", "r", " ", "1", "0", "0">>],
     [name |-> "INC ss", op |-> "inc_register_pair", requires_prefix |-> FALSE,
      pattern |-> <<"0", "0", " ", "s", "s", "0", " ", "0", "1", "1">>],
     [name |-> "SUB A, (HL)", op |-> "sub_hl_location_from_a", requires_prefix |-> FALSE,
      pattern |-> <<"1", "0", " ", "0", "1", "0", " ", "1", "1", "0">>],
     [name |-> "SUB A, n", op |-> "sub_immediate_n_from_a", requires_prefix |-> FALSE,
      pattern |-> <<"1", "1", " ", "0", "1", "0", " ", "1", "1", "0">>],
     [name |-> "SUB A, r", op |-> "sub_register_from_a", requires_prefix |-> FALSE,
      pattern |-> <<"1", "0", " ", "0", "1", "0", " ", "r", "r", "r">>],
     [name |-> "SBC A, (HL)", op |-> "sub_with_carry_hl_location_from_a", requires_prefix |-> FALSE,
      pattern |-> <<"1", "0", " ", "0", "1", "1", " ", "1", "1", "0">>],
     [name |-> "SBC A, n", op |-> "sub_with_carry_immediate_n_from_a", requires_prefix |-> FALSE,
      pattern |-> <<"1", "1", " ", "0", "1", "1", " ", "1", "1", "0">>],
     [name |-> "SBC A, r", op |-> "sub_with_carry_register_from_a", requires_prefix |-> FALSE,
      pattern |-> <<"1", "0", " ", "0", "1", "1", " ", "r", "r", "r">>] >>

\* bit_instructions.rs: the instructions add_bit_instructions installs, in its order.
add_bit_instructions ==
  << [name |-> "BIT b, (HL)", op |-> "bit_complement_of_hl_location", requires_prefix |-> TRUE,
      pattern |-> <<"0", "1", " ", "b", "b", "b", " ", "1", "1", "0">>],
     [name |-> "BIT b, r", op |-> "bit_complement_of_register", requires_prefix |-> TRUE,
      pattern |-> <<"0", "1", " ", "b", "b", "b", " ", "r", "r", "r">>],
     [name |-> "RES b, (HL)", op |-> "reset_bit_of_hl_location", requires_prefix |-> TRUE,
      pattern |-> <<"1", "0", " ", "b", "b", "b", " ", "1", "1", "0">>],
     [name |-> "RES b, r", op |-> "reset_bit_of_register", requires_prefix |-> TRUE,
      pattern |-> <<"1", "0", " ", "b", "b", "b", " ", "r", "r", "r">>],
     [name |-> "SET b, (HL)", op |-> "set_bit_of_hl_location", requires_prefix |-> TRUE,
      pattern |-> <<"1", "1", " ", "b", "b", "b", " ", "1", "1", "0">>],
     [name |-> "SET b, r", op |-> "set_bit_of_register", requires_prefix |-> TRUE,
      pattern |-> <<"1", "1", " ", "b", "b", "b", " ", "r", "r", "r">>] >>

\* call_instructions.rs: the instructions add_call_instructions installs, in its order.
add_call_instructions ==
  << [name |-> "CALL nn", op |-> "call", requires_prefix |-> FALSE,
      pattern |-> <<"1", "1", " ", "0", "0", "1", " ", "1", "0", "1">>],
     [name |-> "CALL cc, nn", op |-> "call_if_condition", requires_prefix |-> FALSE,
      pattern |-> <<"1", "1", " ", "0", "c", "c", " ", "1", "0", "0">>],
     [name |-> "RST t", op |-> "reset_to_page", requires_prefix |-> FALSE,
      pattern |-> <<"1", "1", " ", "t", "t", "t", " ", "1", "1", "1">>],
     [name |-> "RET", op |-> "ret", requires_prefix |-> FALSE,
      pattern |-> <<"1", "1", " ", "0", "0", "1", " ", "0", "0", "1">>],
     [name |-> "RET cc", op |-> "ret_if_condition", requires_prefix |-> FALSE,
      pattern |-> <<"1", "1", " ", "0", "c", "c", " ", "0", "0", "0">>],
     [name |-> "RETI", op |-> "reti", requires_prefix |-> FALSE,
      pattern |-> <<"1", "1", " ", "0", "1", "1", " ", "0", "0", "1">>] >>

\* general_instructions.rs: the instructions add_general_instructions installs, in its order.
add_general_instructions ==
  << [name |-> "CPL A", op |-> "complement_a", requires_prefix |-> FALSE,
      pattern |-> <<"0", "0", " ", "1", "0", "1", " ", "1", "1", "1">>],
     [name |-> "DAA", op |-> "decimal_adjust_a", requires_prefix |-> FALSE,
      pattern |-> <<"0", "0", " ", "1", "0", "0", " ", "1", "1", "1">>],
     [name |-> "DI", op |-> "di", requires_prefix |-> FALSE,
      pattern |-> <<"1", "1", " ", "1", "1", "0", " ", "0", "1", "1">>],
     [name |-> "EI", op |-> "ei", requires_prefix |-> FALSE,
      pattern |-> <<"1", "1", " ", "1", "1", "1", " ", "0", "1", "1">>],
     [name |-> "CCF", op |-> "flip_carry", requires_prefix |-> FALSE,
      pattern |-> <<"0", "0", " ", "1", "1", "1", " ", "1", "1", "1">>],
     [name |-> "HALT", op |-> "halt", requires_prefix |-> FALSE,
      pattern |-> <<"0", "1", " ", "1", "1", "0", " ", "1", "1", "0">>],
     [name |-> "NOP", op |-> "noop", requires_prefix |-> FALSE,
      pattern |-> <<"0", "0", " ", "0", "0", "0", " ", "0", "0", "0">>],
     [name |-> "PREFIX", op |-> "prefix", requires_prefix |-> FALSE,
      pattern |-> <<"1", "1", " ", "0", "0", "1", " ", "0", "1", "1">>],
     [name |-> "SCY", op |-> "set_carry", requires_prefix |-> FALSE,
      pattern |-> <<"0", "0", " ", "1", "1", "0", " ", "1", "1", "1">>],
     [name |-> "STOP", op |-> "stop", requires_prefix |-> FALSE,
      pattern |-> <<"0", "0", " ", "0", "1", "0", " ", "0", "0", "0">>] >>

\* jump_instructions.rs: the instructions add_jump_instructions installs, in its order.
add_jump_instructions ==
  << [name |-> "JP (HL)", op |-> "jump_to_hl", requires_prefix |-> FALSE,
      pattern |-> <<"1", "1", " ", "1", "0", "1", " ", "0", "0", "1">>],
     [name |-> "JP e", op |-> "jump_to_immediate_e", requires_prefix |-> FALSE,
      pattern |-> <<"0", "0", " ", "0", "1", "1", " ", "0", "0", "0">>],
     [name |-> "JP cc, e", op |-> "jump_to_immediate_e_if_condition", requires_prefix |-> FALSE,
      pattern |-> <<"0", "0", " ", "1", "c", "c", " ", "0", "0", "0">>],
     [name |-> "JP nn", op |-> "jump_to_immediate_nn", requires_prefix |-> FALSE,
      pattern |-> <<"1", "1", " ", "0", "0", "0", " ", "0", "1", "1">>],
     [name |-> "JP cc, nn", op |-> "jump_to_immediate_nn_if_condition", requires_prefix |-> FALSE,
      pattern |-> <<"1", "1", " ", "0", "c", "c", " ", "0", "1", "0">>] >>

\* loading_instructions.rs: the instructions add_loading_instructions installs, in its order.
add_loading_instructions ==
  << [name |-> "LD (BC), A", op |-> "load_a_into_bc_location", requires_prefix |-> FALSE,
      pattern |-> <<"0", "0", " ", "0", "0", "0", " ", "0", "1", "0">>],
     [name |-> "LD (C), A", op |-> "load_a_into_c_location", requires_prefix |-> FALSE,
      pattern |-> <<"1", "1", " ", "1", "0", "0", " ", "0", "1", "0">>],
     [name |-> "LD (DE), A", op |-> "load_a_into_de_location", requires_prefix |-> FALSE,
      pattern |-> <<"0", "0", " ", "0", "1", "0", " ", "0", "1", "0">>],
     [name |-> "LD (HLD), A", op |-> "load_a_into_hl_location_dec", requires_prefix |-> FALSE,
      pattern |-> <<"0", "0", " ", "1", "1", "0", " ", "0", "1", "0">>],
     [name |-> "LD (HLI), A", op |-> "load_a_into_hl_location_inc", requires_prefix |-> FALSE,
      pattern |-> <<"0", "0", " ", "1", "0", "0", " ", "0", "1", "0">>],
     [name |-> "LD (n), A", op |-> "load_a_into_immediate_n_location", requires_prefix |-> FALSE,
      pattern |-> <<"1", "1", " ", "1", "0", "0", " ", "0", "0", "0">>],
     [name |-> "LD (nn), A", op |-> "load_a_into_immediate_nn_location", requires_prefix |-> FALSE,
      pattern |-> <<"1", "1", " ", "1", "0", "1", " ", "0", "1", "0">>],
     [name |-> "LD A, (BC)", op |-> "load_bc_location_into_a", requires_prefix |-> FALSE,
      pattern |-> <<"0", "0", " ", "0", "0", "1", " ", "0", "1", "0">>],
     [name |-> "LD A, (C)", op |-> "load_c_location_into_a", requires_prefix |-> FALSE,
      pattern |-> <<"1", "1", " ", "1", "1", "0", " ", "0", "1", "0">>],
     [name |-> "LD A, (DE)", op |-> "load_de_location_into_a", requires_prefix |-> FALSE,
      pattern |-> <<"0", "0", " ", "0", "1", "1", " ", "0", "1", "0">>],
     [name |-> "LD A, (HLI)", op |-> "load_hl_location_dec_into_a", requires_prefix |-> FALSE,
      pattern |-> <<"0", "0", " ", "1", "1", "1", " ", "0", "1", "0">>],
     [name |-> "LD r, (HL)", op |-> "load_hl_location_inc_into_a", requires_prefix |-> FALSE,
      pattern |-> <<"0", "0", " ", "1", "0", "1", " ", "0", "1", "0">>],
     [name |-> "LD SP, HL", op |-> "load_hl_location_into_register", requires_prefix |-> FALSE,
      pattern |-> <<"0", "1", " ", "r", "r", "r", " ", "1", "1", "0">>],
     [name |-> "LD A, (HLD)", op |-> "load_hl_into_sp", requires_prefix |-> FALSE,
      pattern |-> <<"1", "1", " ", "1", "1", "1", " ", "0", "0", "1">>],
     [name |-> "LD (HL), n", op |-> "load_immediate_n_into_hl_location", requires_prefix |-> FALSE,
      pattern |-> <<"0", "0", " ", "1", "1", "0", " ", "1", "1", "0">>],
     [name |-> "LD r, n", op |-> "load_immediate_n_into_register", requires_prefix |-> FALSE,
      pattern |-> <<"0", "0", " ", "r", "r", "r", " ", "1", "1", "0">>],
     [name |-> "LD A, (n)", op |-> "load_immediate_n_location_into_a", requires_prefix |-> FALSE,
      pattern |-> <<"1", "1", " ", "1", "1", "0", " ", "0", "0", "0">>],
     [name |-> "LD qq, nn", op |-> "load_immediate_nn_location_into_a", requires_prefix |-> FALSE,
      pattern |-> <<"1", "1", " ", "1", "1", "1", " ", "0", "1", "0">>],
     [name |-> "LD A, (nn)", op |-> "load_immediate_nn_into_register_pair", requires_prefix |-> FALSE,
      pattern |-> <<"0", "0", " ", "s", "s", "0", " ", "0", "0", "1">>],
     [name |-> "LD (HL), r", op |-> "load_register_into_hl_location", requires_prefix |-> FALSE,
      pattern |-> <<"0", "1", " ", "1", "1", "0", " ", "r", "r", "r">>],
     [name |-> "LD r, r", op |-> "load_register_into_register", requires_prefix |-> FALSE,
      pattern |-> <<"0", "1", " ", "r", "r", "r", " ", "q", "q", "q">>],
     [name |-> "LDHL SP, e", op |-> "load_sp_and_immediate_e_into_hl", requires_prefix |-> FALSE,
      pattern |-> <<"1", "1", " ", "1", "1", "1", " ", "0", "0", "0">>],
     [name |-> "LD (nn), SP", op |-> "load_sp_into_nn_location", requires_prefix |-> FALSE,
      pattern |-> <<"0", "0", " ", "0", "0", "1", " ", "0", "0", "0">>],
     [name |-> "POP ss", op |-> "pop_register_pair", requires_prefix |-> FALSE,
      pattern |-> <<"1", "1", " ", "s", "s", "0", " ", "0", "0", "1">>],
     [name |-> "PUSH ss", op |-> "push_register_pair", requires_prefix |-> FALSE,
      pattern |-> <<"1", "1", " ", "s", "s", "0", " ", "1", "0", "1">>] >>

\* logical_instructions.rs: the instructions add_logical_instructions installs, in its order.
add_logical_instructions ==
  << [name |-> "AND (HL)", op |-> "and_hl_location", requires_prefix |-> FALSE,
      pattern |-> <<"1", "0", " ", "1", "0", "0", " ", "1", "1", "0">>],
     [name |-> "AND n", op |-> "and_immediate_n", requires_prefix |-> FALSE,
      pattern |-> <<"1", "1", " ", "1", "0", "0", " ", "1", "1", "0">>],
     [name |-> "AND r", op |-> "and_register", requires_prefix |-> FALSE,
      pattern |-> <<"1", "0", " ", "1", "0", "0", " ", "r", "r", "r">>],
     [name |-> "OR (HL)", op |-> "or_hl_location", requires_prefix |-> FALSE,
      pattern |-> <<"1", "0", " ", "1", "1", "0", " ", "1", "1", "0">>],
     [name |-> "OR n", op |-> "or_immediate_n", requires_prefix |-> FALSE,
      pattern |-> <<"1", "1", " ", "1", "1", "0", " ", "1", "1", "0">>],
     [name |-> "OR r", op |-> "or_register", requires_prefix |-> FALSE,
      pattern |-> <<"1", "0", " ", "1", "1", "0", " ", "r", "r", "r">>],
     [name |-> "XOR (HL)", op |-> "xor_hl_location", requires_prefix |-> FALSE,
      pattern |-> <<"1", "0", " ", "1", "0", "1", " ", "1", "1", "0">>],
     [name |-> "XOR n", op |-> "xor_immediate_n", requires_prefix |-> FALSE,
      pattern |-> <<"1", "1", " ", "1", "0", "1", " ", "1", "1", "0">>],
     [name |-> "XOR r", op |-> "xor_register", requires_prefix |-> FALSE,
      pattern |-> <<"1", "0", " ", "1", "0", "1", " ", "r", "r", "r">>] >>

\* rotating_instructions.rs: the instructions add_rotating_instructions installs, in its order.
add_rotating_instructions ==
  << [name |-> "RLCA", op |-> "rotate_a_left_copy_carry", requires_prefix |-> FALSE,
      pattern |-> <<"0", "0", " ", "0", "0", "0", " ", "1", "1", "1">>],
     [name |-> "RLA", op |-> "rotate_a_left_through_carry", requires_prefix |-> FALSE,
      pattern |-> <<"0", "0", " ", "0", "1", "0", " ", "1", "1", "1">>],
     [name |-> "RRCA", op |-> "rotate_a_right_copy_carry", requires_prefix |-> FALSE,
      pattern |-> <<"0", "0", " ", "0", "0", "1", " ", "1", "1", "1">>],
     [name |-> "RRA", op |-> "rotate_a_right_through_carry", requires_prefix |-> FALSE,
      pattern |-> <<"0", "0", " ", "0", "1", "1", " ", "1", "1", "1">>],
     [name |-> "RLC (HL)", op |-> "rotate_hl_location_left_copy_carry", requires_prefix |-> TRUE,
      pattern |-> <<"0", "0", " ", "0", "0", "0", " ", "1", "1", "0">>],
     [name |-> "RL (HL)", op |-> "rotate_hl_location_left_through_carry", requires_prefix |-> TRUE,
      pattern |-> <<"0", "0", " ", "0", "1", "0", " ", "1", "1", "0">>],
     [name |-> "RRC (HL)", op |-> "rotate_hl_location_right_copy_carry", requires_prefix |-> TRUE,
      pattern |-> <<"0", "0", " ", "0", "0", "1", " ", "1", "1", "0">>],
     [name |-> "RR (HL)", op |-> "rotate_hl_location_right_through_carry", requires_prefix |-> TRUE,
      pattern |-> <<"0", "0", " ", "0", "1", "1", " ", "1", "1", "0">>],
     [name |-> "RLC r", op |-> "rotate_register_left_copy_carry", requires_prefix |-> TRUE,
      pattern |-> <<"0", "0", " ", "0", "0", "0", " ", "r", "r", "r">>],
     [name |-> "RL r", op |-> "rotate_register_left_through_carry", requires_prefix |-> TRUE,
      pattern |-> <<"0", "0", " ", "0", "1", "0", " ", "r", "r", "r">>],
     [name |-> "RRC r", op |-> "rotate_register_right_copy_carry", requires_prefix |-> TRUE,
      pattern |-> <<"0", "0", " ", "0", "0", "1", " ", "r", "r", "r">>],
     [name |-> "RR r", op |-> "rotate_register_right_through_carry", requires_prefix |-> TRUE,
      pattern |-> <<"0", "0", " ", "0", "1", "1", " ", "r", "r", "r">>],
     [name |-> "SLA (HL)", op |-> "shift_hl_location_left", requires_prefix |-> TRUE,
      pattern |-> <<"0", "0", " ", "1", "0", "0", " ", "1", "1", "0">>],
     [name |-> "SRA (HL)", op |-> "shift_hl_location_right", requires_prefix |-> TRUE,
      pattern |-> <<"0", "0", " ", "1", "0", "1", " ", "1", "1", "0">>],
     [name |-> "SRL (HL)", op |-> "shift_hl_location_right_copy_bit", requires_prefix |-> TRUE,
      pattern |-> <<"0", "0", " ", "1", "1", "1", " ", "1", "1", "0">>],
     [name |-> "SLA r", op |-> "shift_register_left", requires_prefix |-> TRUE,
      pattern |-> <<"0", "0", " ", "1", "0", "0", " ", "r", "r", "r">>],
     [name |-> "SRA r", op |-> "shift_register_right", requires_prefix |-> TRUE,
      pattern |-> <<"0", "0", " ", "1", "0", "1", " ", "r", "r", "r">>],
     [name |-> "SRL r", op |-> "shift_register_right_copy_bit", requires_prefix |-> TRUE,
      pattern |-> <<"0", "0", " ", "1", "1", "1", " ", "r", "r", "r">>],
     [name |-> "SWAP (HL)", op |-> "swap_bits_of_hl_location", requires_prefix |-> TRUE,
      pattern |-> <<"0", "0", " ", "1", "1", "0", " ", "1", "1", "0">>],
     [name |-> "SWAP r", op |-> "swap_bits_of_register", requires_prefix |-> TRUE,
      pattern |-> <<"0", "0", " ", "1", "1", "0", " ", "r", "r", "r">>] >>

\* lib.rs add_instructions: the eight groups in the order it installs them
add_instructions ==
  add_arithmetic_instructions \o add_bit_instructions \o add_call_instructions \o
  add_general_instructions \o add_jump_instructions \o add_loading_instructions \o
  add_logical_instructions \o add_rotating_instructions

\* general_instructions.rs UNIMPLEMENTED_OPCODES
UNIMPLEMENTED_OPCODES == {211, 219, 221, 227, 228, 235, 236, 237, 244, 252, 253}

(***************************************************************************)
(* Emulator::add_instruction on the table [instructions, instruction_map,  *)
(* name_map, panic].  A key is << requires_prefix, opcode >>.              *)
(***************************************************************************)
EmptyMap == [k \in {} |-> 0]

add_instruction(t, instruction) ==
  Let(opcodes(instruction.pattern), LAMBDA expanded :
  Let({ << instruction.requires_prefix, opcode >> : opcode \in expanded.opcodes },
      LAMBDA keys :
  IF t.panic THEN t
  ELSE IF expanded.panic \/ keys \cap DOMAIN t.name_map /= {}
  THEN [t EXCEPT !.panic = TRUE,
                 !.instructions = Append(t.instructions, instruction.op)]
  ELSE [instructions |-> Append(t.instructions, instruction.op),
        instruction_map |-> [k \in DOMAIN t.instruction_map \cup keys |->
                               IF k \in keys THEN Len(t.instructions)
                               ELSE t.instruction_map[k]],
        name_map |-> [k \in DOMAIN t.name_map \cup keys |->
                        IF k \in keys THEN instruction.name ELSE t.name_map[k]],
        panic |-> FALSE]))

\* Emulator::new: an empty table
NewTable ==
  [instructions |-> << >>, instruction_map |-> EmptyMap, name_map |-> EmptyMap,
   panic |-> FALSE]

\* The table of an emulator after add_instructions, every add_instruction
\* of it taken together: the pairs each instruction claims, the index and
\* the name of the instruction for each pair, and a panic when a pattern
\* fails to expand or a pair is claimed by two instructions.
DefaultTable ==
  Let([i \in 1..Len(add_instructions) |-> opcodes(add_instructions[i].pattern)],
      LAMBDA expanded :
  Let(UNION { { << add_instructions[i].requires_prefix, o, i >> :
                o \in expanded[i].opcodes } : i \in 1..Len(add_instructions) },
      LAMBDA claims :
  Let({ << c[1], c[2] >> : c \in claims }, LAMBDA keys :
  Let([k \in keys |-> (CHOOSE c \in claims : c[1] = k[1] /\ c[2] = k[2])[3]],
      LAMBDA owner :
  [instructions |-> [i \in 1..Len(add_instructions) |-> add_instructions[i].op],
   instruction_map |-> [k \in keys |-> owner[k] - 1],
   name_map |-> [k \in keys |-> add_instructions[owner[k]].name],
   panic |-> \/ \E i \in 1..Len(add_instructions) : expanded[i].panic
             \/ Cardinality(claims) /= Cardinality(keys)]))))

(***************************************************************************)
(* Results.  OpError and MemoryError values are records of one shape; Ok   *)
(* is the value of a call that returned Ok(..).                            *)
(***************************************************************************)
Err(kind, location, value, prefix, message) ==
  [kind |-> kind, location |-> location, value |-> value, prefixed |-> prefix,
   message |-> message]
Ok == Err("Ok", 0, 0, FALSE, "")
ReadError(location, message) == Err("ReadError", location, 0, FALSE, message)
WriteError(location, value, message) == Err("WriteError", location, value, FALSE, message)
\* OpError::Unimplemented(bool, u8)
Unimplemented(flag, opcode) == Err("Unimplemented", 0, opcode, flag, "")
ConditionParse(argument) == Err("ConditionParse", 0, argument, FALSE, "")
PageParse(argument) == Err("PageParse", 0, argument, FALSE, "")
RegisterParse(argument) == Err("RegisterParse", 0, argument, FALSE, "")
RegisterPairParse(argument) == Err("RegisterPairParse", 0, argument, FALSE, "")
\* What is left of a call that panicked
Panicked == Err("panic", 0, 0, FALSE, "")

(***************************************************************************)
(* The memory components.  A component is [kind, memory_state]; the        *)
(* components that keep no HashMap have the empty memory_state.  The       *)
(* constructors that fill a HashMap over a whole region fill it here over  *)
(* the addresses of the region that Locations holds: every operation of    *)
(* the bus acts on one address and leaves the others alone.                *)
(***************************************************************************)
\* The sampled addresses: ends of the regions of the default emulator,
\* neighbours outside them, and the two ends of the address space.
Locations ==
  { 0, 49151, 49152, 56831, 57343, 57344, 65023, 65024, 65281, 65283, 65296,
    65328, 65407, 65408, 65534, 65535 }

Zeroed(region) == [i \in region \cap Locations |-> 0]

\* stack_component.rs 5-6
STACK_START_ADDRESS == 65408
STACK_END_ADDRESS == 65534
\* work_ram_component.rs 5-9
WORK_RAM_START_ADDRESS == 49152
WORK_RAM_END_ADDRESS == 57343
ECHO_RAM_START_ADDRESS == 57344
ECHO_RAM_END_ADDRESS == 65023
\* unusable_ram_component.rs 5-6
UNUSABLE_AREA_START_ADDRESS == 49152
UNUSABLE_AREA_END_ADDRESS == 57343
\* serial_transfer_component.rs 3-4
SB_ADDRESS == 65281
SC_ADDRESS == 65282
\* sound_component.rs 5-27: NR10..NR14, NR21..NR24, NR30..NR34, NR41..NR44,
\* NR50..NR52 and the wave pattern RAM
SoundRegisters ==
  (65296..65300) \cup (65302..65305) \cup (65306..65310) \cup (65312..65315)
  \cup (65316..65318)
WAVE_PATTERN_RAM_START_ADDRESS == 65328
WAVE_PATTERN_RAM_END_ADDRESS == 65343

UnimplementedMemory_new == [kind |-> "UnimplementedMemory", memory_state |-> EmptyMap]
SerialTransferComponent_new ==
  [kind |-> "SerialTransferComponent", memory_state |-> EmptyMap]
SoundComponent_new ==
  [kind |-> "SoundComponent",
   memory_state |-> Zeroed(SoundRegisters \cup
                           (WAVE_PATTERN_RAM_START_ADDRESS..WAVE_PATTERN_RAM_END_ADDRESS))]
StackComponent_new ==
  [kind |-> "StackComponent",
   memory_state |-> Zeroed(STACK_START_ADDRESS..STACK_END_ADDRESS)]
UnusableRamComponent_new ==
  [kind |-> "UnusableRamComponent",
   memory_state |-> Zeroed(UNUSABLE_AREA_START_ADDRESS..UNUSABLE_AREA_END_ADDRESS)]
WorkRamComponent_new ==
  [kind |-> "WorkRamComponent",
   memory_state |-> Zeroed((ECHO_RAM_START_ADDRESS..ECHO_RAM_END_ADDRESS) \cup
                           (WORK_RAM_START_ADDRESS..WORK_RAM_END_ADDRESS))]
\* tests/common/mod.rs TestComponent::new(memory_state)
TestComponent_new(memory_state) ==
  [kind |-> "TestComponent", memory_state |-> memory_state]

\* u16::MAX, the length MemoryMapping::new gives the table, and the end of
\* the range the default mapped_locations collects
U16_MAX == 65535

\* MemoryComponent::mapped_locations
mapped_locations(component) ==
  CASE component.kind = "UnimplementedMemory" -> 0..(U16_MAX - 1)
    [] component.kind = "SerialTransferComponent" -> {SB_ADDRESS, SC_ADDRESS}
    [] OTHER -> DOMAIN component.memory_state

\* MemoryComponent::read: [component, value, err]
component_read(component, location) ==
  CASE component.kind \in {"UnimplementedMemory", "SerialTransferComponent"} ->
         [value |-> 0, err |-> ReadError(location, "unimplemented")]
    [] component.kind = "UnusableRamComponent" -> [value |-> 0, err |-> Ok]
    [] OTHER ->
         IF location \in DOMAIN component.memory_state
         THEN [value |-> component.memory_state[location], err |-> Ok]
         ELSE [value |-> 0, err |-> ReadError(location, "invalid state")]

\* MemoryComponent::write: [component, err]
component_write(component, location, value) ==
  CASE component.kind \in {"UnimplementedMemory", "SerialTransferComponent"} ->
         [component |-> component, err |-> WriteError(location, value, "unimplemented")]
    [] component.kind = "UnusableRamComponent" -> [component |-> component, err |-> Ok]
    [] OTHER ->
         IF location \in DOMAIN component.memory_state
         THEN [component |-> [component EXCEPT !.memory_state[location] = value],
               err |-> Ok]
         ELSE [component |-> component,
               err |-> WriteError(location, value, "invalid state")]

(***************************************************************************)
(* memory_mapping.rs.  The bus is [components, memory_mapping, panic].     *)
(* The table is a Vec of U16_MAX zeros at first; memory_mapping holds the  *)
(* entries that are not zero, an index absent from it below the length of  *)
(* the table reading zero.  An index at or past the length panics.         *)
(***************************************************************************)
TableLength == U16_MAX

table_get(memory_mapping_, location) ==
  IF location \in DOMAIN memory_mapping_ THEN memory_mapping_[location] ELSE 0

table_set(memory_mapping_, locations, component_index) ==
  IF component_index = 0
  THEN [l \in DOMAIN memory_mapping_ \ locations |-> memory_mapping_[l]]
  ELSE [l \in DOMAIN memory_mapping_ \cup locations |->
          IF l \in locations THEN component_index ELSE memory_mapping_[l]]

\* MemoryMapping::register_component
register_component(bus, component) ==
  IF bus.panic THEN bus
  ELSE IF \E l \in mapped_locations(component) : l >= TableLength
  THEN [bus EXCEPT !.components = Append(bus.components, component), !.panic = TRUE]
  ELSE [components |-> Append(bus.components, component),
        memory_mapping |-> table_set(bus.memory_mapping, mapped_locations(component),
                                     Len(bus.components)),
        panic |-> FALSE]

\* MemoryMapping::new
MemoryMapping_new ==
  register_component([components |-> << >>, memory_mapping |-> EmptyMap,
                      panic |-> FALSE], UnimplementedMemory_new)

\* MemoryMapping::read: [bus, value, err, delegate]; delegate is the index
\* of the component the call went to, -1 when the lookup panicked
MemoryMapping_read(bus, location) ==
  IF location >= TableLength \/ table_get(bus.memory_mapping, location) >= Len(bus.components)
  THEN [bus |-> [bus EXCEPT !.panic = TRUE], value |-> 0, err |-> Panicked,
        delegate |-> -1]
  ELSE Let(table_get(bus.memory_mapping, location), LAMBDA component_index :
       Let(component_read(bus.components[component_index + 1], location), LAMBDA r :
       [bus |-> bus, value |-> r.value, err |-> r.err, delegate |-> component_index]))

\* MemoryMapping::write: [bus, value, err, delegate]
MemoryMapping_write(bus, location, value) ==
  IF location >= TableLength \/ table_get(bus.memory_mapping, location) >= Len(bus.components)
  THEN [bus |-> [bus EXCEPT !.panic = TRUE], value |-> 0, err |-> Panicked,
        delegate |-> -1]
  ELSE Let(table_get(bus.memory_mapping, location), LAMBDA component_index :
       Let(component_write(bus.components[component_index + 1], location, value),
           LAMBDA r :
       [bus |-> [bus EXCEPT !.components[component_index + 1] = r.component],
        value |-> 0, err |-> r.err, delegate |-> component_index]))

(***************************************************************************)
(* bits.rs: bit_add and bit_subtract on an unsigned integer of the given   *)
(* width (8 for u8, 16 for u16): << value, carry, half carry >>.           *)
(***************************************************************************)
max_value(bits) == Pow2(bits) - 1
\* U::max_value() >> (U::zero().count_zeros() / 2)
half_value(bits) == max_value(bits) \div Pow2(bits \div 2)

\* bit_add with the half carry of a + b alone
bit_add_half_without_carry(a, b, carry, bits) ==
  LET carry_value == IF carry THEN 1 ELSE 0
      half == half_value(bits)
  IN << (a + b + carry_value) % Pow2(bits), a + b + carry_value > max_value(bits),
        (a % (half + 1)) + (b % (half + 1)) > half >>

bit_add(a, b, carry, bits) ==
  LET carry_value == IF carry THEN 1 ELSE 0
      half == half_value(bits)
      has_half_carry == (a % (half + 1)) + (b % (half + 1)) + carry_value > half
      sum == (a + b) % Pow2(bits)
      has_carry == a + b > max_value(bits)
  IN IF has_carry
     THEN << (sum + carry_value) % Pow2(bits), TRUE, has_half_carry >>
     ELSE << (sum + carry_value) % Pow2(bits), sum + carry_value > max_value(bits),
             has_half_carry >>

bit_subtract(a, b, borrow, bits) ==
  LET borrow_value == IF borrow THEN 1 ELSE 0
      half == half_value(bits)
      has_half_borrow == (a % (half + 1)) < (((b + borrow_value) % Pow2(bits)) % (half + 1))
      dif == (a - b) % Pow2(bits)
      has_borrow == a < b
  IN IF has_borrow
     THEN << (dif - borrow_value) % Pow2(bits), TRUE, has_half_borrow >>
     ELSE << (dif - borrow_value) % Pow2(bits), dif < borrow_value, has_half_borrow >>

(***************************************************************************)
(* The emulator.  The operators below take and return the record e of the  *)
(* fields a step can change: the fields of Emulator but the table, the     *)
(* fields of its MemoryMapping, aborted and overflow_checks, and the       *)
(* counts of calls.  A call that returns a value or a Result returns       *)
(* [e, value, err].                                                        *)
(***************************************************************************)
R(e, value, err) == [e |-> e, value |-> value, err |-> err]
Failed(r) == r.e.aborted \/ r.err.kind /= "Ok"
Abort(e) == [e EXCEPT !.aborted = TRUE]

\* flag.rs
Flag_Z == 128
Flag_N == 64
Flag_H == 32
Flag_CY == 16

\* Register::from_u8 without the code of A
Register_from_u8_without_a(argument) ==
  CASE argument = 0 -> "B" [] argument = 1 -> "C"
    [] argument = 2 -> "D" [] argument = 3 -> "E" [] argument = 4 -> "H"
    [] argument = 5 -> "L" [] OTHER -> ""
\* register.rs: Register::from_u8, "" for None; RegisterPair::from_u8
Register_from_u8(argument) ==
  CASE argument = 7 -> "A" [] argument = 0 -> "B" [] argument = 1 -> "C"
    [] argument = 2 -> "D" [] argument = 3 -> "E" [] argument = 4 -> "H"
    [] argument = 5 -> "L" [] OTHER -> ""
RegisterPair_from_u8(argument) ==
  CASE argument = 3 -> "Af" [] argument = 0 -> "Bc" [] argument = 1 -> "De"
    [] argument = 2 -> "Hl" [] OTHER -> ""
\* RegisterPair::to_registers: << low register, high register >>
to_registers(register_pair) ==
  CASE register_pair = "Af" -> << "A", "A" >>
    [] register_pair = "Bc" -> << "C", "B" >>
    [] register_pair = "De" -> << "E", "D" >>
    [] register_pair = "Hl" -> << "L", "H" >>

\* condition.rs: Condition::from_u8
Condition_from_u8(argument) ==
  CASE argument = 3 -> "C" [] argument = 2 -> "Nc" [] argument = 0 -> "Nz"
    [] argument = 1 -> "Z" [] OTHER -> ""

\* opcode.rs: (self & mask) >> mask.trailing_zeros()
field(opcode, mask) == BitAnd(opcode, mask) \div Pow2(trailing_zeros(mask))
parse_bit(opcode, mask) == field(opcode, mask)
parse_condition(opcode, mask) ==
  LET argument == field(opcode, mask)
  IN [value |-> Condition_from_u8(argument),
      err |-> IF Condition_from_u8(argument) = "" THEN ConditionParse(argument) ELSE Ok]
parse_page(opcode, mask) ==
  LET argument == field(opcode, mask)
  IN [value |-> IF argument \in 0..7 THEN 8 * argument ELSE 0,
      err |-> IF argument \in 0..7 THEN Ok ELSE PageParse(argument)]
parse_register(opcode, mask) ==
  LET argument == field(opcode, mask)
  IN [value |-> Register_from_u8(argument),
      err |-> IF Register_from_u8(argument) = "" THEN RegisterParse(argument) ELSE Ok]
parse_register_pair(opcode, mask) ==
  LET argument == field(opcode, mask)
  IN [value |-> RegisterPair_from_u8(argument),
      err |-> IF RegisterPair_from_u8(argument) = "" THEN RegisterPairParse(argument)
              ELSE Ok]

\* u16 +, -: a panic in a build with overflow checks, wrapping in one without
add_u16(e, a, b) ==
  R(IF a + b > 65535 /\ e.overflow_checks THEN Abort(e) ELSE e, (a + b) % 65536, Ok)
sub_u16(e, a, b) ==
  R(IF a < b /\ e.overflow_checks THEN Abort(e) ELSE e, (a - b) % 65536, Ok)

BusOf(e) ==
  [components |-> e.components, memory_mapping |-> e.memory_mapping, panic |-> e.aborted]
WithBus(e, bus) ==
  [e EXCEPT !.components = bus.components, !.memory_mapping = bus.memory_mapping,
            !.aborted = bus.panic]

\* Emulator::flag, set_flag, flip_flag
flag(e, f) == BitAnd(e.flags, f) > 0
set_flag(e, f, value) ==
  [e EXCEPT !.flags = IF value THEN BitOr(@, f) ELSE BitAnd(@, BitNot(f))]
flip_flag(e, f) == [e EXCEPT !.flags = BitXor(@, f)]

\* Condition::check
check(condition, e) ==
  CASE condition = "C" -> flag(e, Flag_CY)
    [] condition = "Nc" -> ~flag(e, Flag_CY)
    [] condition = "Nz" -> ~flag(e, Flag_Z)
    [] condition = "Z" -> flag(e, Flag_Z)

\* What the properties compare of the emulator before and after a step
Snapshot(e) ==
  [program_counter |-> e.program_counter, stack_pointer |-> e.stack_pointer,
   registers |-> e.registers, flags |-> e.flags, prefixed |-> e.prefixed,
   cycles_processed |-> e.cycles_processed, jumped |-> e.jumped,
   interrupt_master_enable |-> e.interrupt_master_enable, state |-> e.state,
   components |-> e.components, bus_reads |-> e.bus_reads,
   bus_writes |-> e.bus_writes, pc_sets |-> e.pc_sets]
\* The first access of a step that returned an error: the emulator as the
\* access left it, and the error
Noted(e, err) ==
  IF err.kind \in {"ReadError", "WriteError"} /\ e.failure = << >>
  THEN [e EXCEPT !.failure = << Snapshot(e), err >>]
  ELSE e

\* Emulator::read and Emulator::write
read(e, location) ==
  Let([e EXCEPT !.cycles_processed = @ + 1, !.bus_reads = @ + 1], LAMBDA counted :
  Let(MemoryMapping_read(BusOf(counted), location), LAMBDA r :
  R(Noted(WithBus(counted, r.bus), r.err), r.value, r.err)))
write(e, location, value) ==
  Let([e EXCEPT !.cycles_processed = @ + 1, !.bus_writes = @ + 1], LAMBDA counted :
  Let(MemoryMapping_write(BusOf(counted), location, value), LAMBDA r :
  R(Noted(WithBus(counted, r.bus), r.err), 0, r.err)))

\* Emulator::register, set_register, a, set_a
register(e, r) == e.registers[r]
set_register(e, r, value) == [e EXCEPT !.registers[r] = value]
a(e) == register(e, "A")
set_a(e, value) == set_register(e, "A", value)

\* Emulator::register_pair
register_pair(e, pair) ==
  LET low == CASE pair = "Af" -> e.flags
               [] pair = "Bc" -> e.registers["C"]
               [] pair = "De" -> e.registers["E"]
               [] pair = "Hl" -> e.registers["L"]
      high == CASE pair = "Af" -> e.registers["A"]
                [] pair = "Bc" -> e.registers["B"]
                [] pair = "De" -> e.registers["D"]
                [] pair = "Hl" -> e.registers["H"]
  IN from_le_bytes(low, high)

\* Emulator::set_register_pair
set_register_pair(e, pair, value) ==
  LET low_value == to_le_bytes(value)[1]
      high_value == to_le_bytes(value)[2]
  IN IF pair = "Af"
     THEN [set_register(e, "A", low_value) EXCEPT !.flags = high_value]
     ELSE set_register(set_register(e, to_registers(pair)[1], low_value),
                       to_registers(pair)[2], high_value)

hl(e) == register_pair(e, "Hl")
set_hl(e, value) == set_register_pair(e, "Hl", value)
read_hl_location(e) == read(e, hl(e))
write_hl_location(e, value) == write(e, hl(e), value)

\* Emulator::set_stack_pointer, set_interrupt_master_enable, set_prefix,
\* set_state
set_stack_pointer(e, value) == [e EXCEPT !.stack_pointer = value]
set_interrupt_master_enable(e, value) == [e EXCEPT !.interrupt_master_enable = value]
set_prefix(e, value) == [e EXCEPT !.prefixed = value]
set_state(e, value) == [e EXCEPT !.state = value]

\* Emulator::set_program_counter.  The variant leaves the cycle counter.
set_program_counter_no_cycle(e, value) ==
  [e EXCEPT !.program_counter = value, !.pc_sets = @ + 1]
set_program_counter(e, value) ==
  [e EXCEPT !.program_counter = value, !.cycles_processed = @ + 1, !.pc_sets = @ + 1]

\* Emulator::jump_to and jump_relative_to.  value is an i8, -128..127;
\* value.abs() of -128 panics in a build with overflow checks and is -128
\* in one without, which `as u16` turns into 65408.
jump_to(e, location) == [e EXCEPT !.program_counter = location, !.jumped = TRUE]
jump_relative_to(e, value) ==
  IF value < 0
  THEN IF value = -128 /\ e.overflow_checks THEN Abort(e)
       ELSE jump_to(e, (e.program_counter - (IF value = -128 THEN 65408 ELSE -value)) % 65536)
  ELSE jump_to(e, (e.program_counter + value) % 65536)

\* Emulator::read_immediate_n, read_immediate_e, read_immediate_nn
read_immediate_n(e) ==
  Let(read(e, e.program_counter), LAMBDA value :
  R([value.e EXCEPT !.program_counter = (@ + 1) % 65536], value.value, value.err))
read_immediate_e(e) ==
  Let(read_immediate_n(e), LAMBDA value :
  IF Failed(value) THEN value
  ELSE R(value.e, IF value.value >= 128 THEN value.value - 256 ELSE value.value, Ok))
read_immediate_nn(e) ==
  Let(read_immediate_n(e), LAMBDA low :
  IF Failed(low) THEN low
  ELSE Let(read_immediate_n(low.e), LAMBDA high :
       IF Failed(high) THEN high
       ELSE R(high.e, from_le_bytes(low.value, high.value), Ok)))

\* Emulator::add_unsigned and subtract_unsigned on a u8 (bits = 8) or a u16
add_unsigned(e, x, y, with_carry, bits) ==
  Let(bit_add(x, y, with_carry /\ flag(e, Flag_CY), bits), LAMBDA r :
  R(set_flag(set_flag(set_flag(set_flag(e, Flag_CY, r[2]), Flag_H, r[3]),
                      Flag_N, FALSE), Flag_Z, r[1] = 0), r[1], Ok))
subtract_unsigned(e, x, y, with_carry, bits) ==
  Let(bit_subtract(x, y, with_carry /\ flag(e, Flag_CY), bits), LAMBDA r :
  R(set_flag(set_flag(set_flag(set_flag(e, Flag_CY, r[2]), Flag_H, r[3]),
                      Flag_N, TRUE), Flag_Z, r[1] = 0), r[1], Ok))

\* Emulator::add_signed with S = i8 and U = u16.  b.abs() of -128 panics in
\* a build with overflow checks and is -128 in one without, which try_into
\* refuses, so that unwrap panics.
add_signed(e, x, b, with_carry) ==
  IF b < 0
  THEN IF b = -128 THEN R(Abort(e), 0, Panicked)
       ELSE Let(subtract_unsigned(e, x, -b, with_carry, 16), LAMBDA value :
            R(set_flag(value.e, Flag_N, FALSE), value.value, Ok))
  ELSE add_unsigned(e, x, b, with_carry, 16)

\* Emulator::add_to_a, subtract_from_a, bitwise_*_with_a
add_to_a(e, value, with_carry) ==
  Let(add_unsigned(e, e.registers["A"], value, with_carry, 8), LAMBDA r :
  set_register(r.e, "A", r.value))
subtract_from_a(e, value, with_carry) ==
  Let(subtract_unsigned(e, register(e, "A"), value, with_carry, 8), LAMBDA r :
  set_register(r.e, "A", r.value))
bitwise_and_with_a(e, value) ==
  LET v == BitAnd(register(e, "A"), value)
  IN set_a(set_flag(set_flag(set_flag(set_flag(e, Flag_CY, FALSE), Flag_H, TRUE),
                             Flag_N, FALSE), Flag_Z, v = 0), v)
bitwise_or_with_a(e, value) ==
  LET v == BitOr(register(e, "A"), value)
  IN set_a(set_flag(set_flag(set_flag(set_flag(e, Flag_CY, FALSE), Flag_H, FALSE),
                             Flag_N, FALSE), Flag_Z, v = 0), v)
\* bitwise_xor_with_a setting H as bitwise_and_with_a does
bitwise_xor_with_a_setting_h(e, value) ==
  LET v == BitXor(register(e, "A"), value)
  IN set_a(set_flag(set_flag(set_flag(set_flag(e, Flag_CY, FALSE), Flag_H, TRUE),
                             Flag_N, FALSE), Flag_Z, v = 0), v)
bitwise_xor_with_a(e, value) ==
  LET v == BitXor(register(e, "A"), value)
  IN set_a(set_flag(set_flag(set_flag(set_flag(e, Flag_CY, FALSE), Flag_H, FALSE),
                             Flag_N, FALSE), Flag_Z, v = 0), v)

(***************************************************************************)
(* The `?` operator: the rest of a body runs on the outcome r of a call    *)
(* unless r is an Err, which the body returns, or the call panicked.       *)
(***************************************************************************)
Then(r, rest(_)) ==
  Let(r, LAMBDA x : IF Failed(x) THEN R(x.e, 0, x.err) ELSE rest(x))
Done(e) == R(e, 0, Ok)
Parsed(e, p) == R(e, p.value, p.err)

(***************************************************************************)
(* instruction/call_instructions.rs                                        *)
(***************************************************************************)
store_program_counter(e) ==
  LET low_value == to_le_bytes(e.program_counter)[1]
      high_value == to_le_bytes(e.program_counter)[2]
  IN Then(sub_u16(e, e.stack_pointer, 1), LAMBDA l1 :
     Then(write(l1.e, l1.value, high_value), LAMBDA w1 :
     Then(sub_u16(w1.e, w1.e.stack_pointer, 2), LAMBDA l2 :
     write(l2.e, l2.value, low_value))))

call(e, opcode) ==
  Then(store_program_counter(e), LAMBDA s :
  Then(read_immediate_nn(s.e), LAMBDA nn :
  LET set == set_program_counter(nn.e, nn.value)
  IN Then(sub_u16(set, set.stack_pointer, 2), LAMBDA sp :
     Done(set_stack_pointer(sp.e, sp.value)))))

call_if_condition(e, opcode) ==
  Then(Parsed(e, parse_condition(opcode, 24)), LAMBDA condition :
  IF check(condition.value, e) THEN call(e, opcode) ELSE Done(e))

ret(e, opcode) ==
  Then(read(e, e.stack_pointer), LAMBDA low_value :
  Then(add_u16(low_value.e, low_value.e.stack_pointer, 1), LAMBDA l :
  Then(read(l.e, l.value), LAMBDA high_value :
  LET set == set_program_counter(high_value.e,
                                 from_le_bytes(low_value.value, high_value.value))
  IN Then(add_u16(set, set.stack_pointer, 2), LAMBDA sp :
     Done(set_stack_pointer(sp.e, sp.value))))))

ret_if_condition(e, opcode) ==
  Then(Parsed(e, parse_condition(opcode, 24)), LAMBDA condition :
  IF check(condition.value, e) THEN ret(e, opcode) ELSE Done(e))

\* The variant leaves the latch to a later step.
ei_deferred(e, opcode) == Done(e)
ei(e, opcode) == Done(set_interrupt_master_enable(e, TRUE))

reti(e, opcode) == Then(ei(e, opcode), LAMBDA r : ret(r.e, opcode))

reset_to_page(e, opcode) ==
  Then(Parsed(e, parse_page(opcode, 56)), LAMBDA page :
  Then(store_program_counter(e), LAMBDA s :
  Then(sub_u16(s.e, s.e.stack_pointer, 2), LAMBDA sp :
  Done(set_program_counter(set_stack_pointer(sp.e, sp.value), page.value)))))

(***************************************************************************)
(* instruction/general_instructions.rs                                     *)
(***************************************************************************)
complement_a(e, opcode) == Done(set_a(e, BitNot(a(e))))

decimal_adjust_a(e, opcode) ==
  LET h == flag(e, Flag_H)
      n == flag(e, Flag_N)
      cy == flag(e, Flag_CY)
      low == (~n /\ BitAnd(a(e), 15) > 9) \/ h
      high == (~n /\ BitAnd(a(e), 240) > 144) \/ cy
      offset == (IF low THEN 6 ELSE 0) + (IF high THEN 96 ELSE 0)
      adjusted == IF n THEN (a(e) - offset) % 256 ELSE (a(e) + offset) % 256
  IN Done(set_flag(set_flag(set_flag(set_a(e, adjusted), Flag_CY, high),
                            Flag_H, FALSE), Flag_Z, adjusted = 0))

di(e, opcode) == Done(set_interrupt_master_enable(e, FALSE))
flip_carry(e, opcode) == Done(set_flag(e, Flag_CY, ~flag(e, Flag_CY)))
halt(e, opcode) == Done(set_state(e, "Halt"))
noop(e, opcode) == Done(e)
prefix(e, opcode) == Done(set_prefix(e, TRUE))
set_carry(e, opcode) == Done(set_flag(e, Flag_CY, TRUE))
stop(e, opcode) == Done(set_state(e, "Stop"))

(***************************************************************************)
(* instruction/jump_instructions.rs                                        *)
(***************************************************************************)
jump_to_hl(e, opcode) == Done(jump_to(e, hl(e)))

jump_to_immediate_e(e, opcode) ==
  Then(read_immediate_e(e), LAMBDA v : Done(jump_relative_to(v.e, v.value)))

\* The variant jumps whatever the condition.
jump_to_immediate_e_unconditional(e, opcode) == jump_to_immediate_e(e, opcode)
jump_to_immediate_e_if_condition(e, opcode) ==
  Then(Parsed(e, parse_condition(opcode, 24)), LAMBDA condition :
  Then(read_immediate_e(e), LAMBDA v :
  IF check(condition.value, v.e) THEN Done(jump_relative_to(v.e, v.value))
  ELSE Done(v.e)))

jump_to_immediate_nn(e, opcode) ==
  Then(read_immediate_nn(e), LAMBDA nn : Done(jump_to(nn.e, nn.value)))

jump_to_immediate_nn_if_condition(e, opcode) ==
  Then(Parsed(e, parse_condition(opcode, 24)), LAMBDA condition :
  Then(read_immediate_nn(e), LAMBDA nn :
  IF check(condition.value, nn.e) THEN Done(jump_to(nn.e, nn.value))
  ELSE Done(nn.e)))

(***************************************************************************)
(* instruction/loading_instructions.rs                                     *)
(***************************************************************************)
\* crate::addresses, which the instructions import
PORT_REGISTER_START == 65280

load_a_into_bc_location(e, opcode) ==
  Then(write(e, register_pair(e, "Bc"), a(e)), LAMBDA w : Done(w.e))

load_a_into_c_location(e, opcode) ==
  Then(write(e, PORT_REGISTER_START + register(e, "C"), a(e)), LAMBDA w : Done(w.e))

load_a_into_de_location(e, opcode) ==
  Then(write(e, register_pair(e, "De"), a(e)), LAMBDA w : Done(w.e))

load_a_into_hl_location_dec(e, opcode) ==
  Then(write_hl_location(e, a(e)), LAMBDA w :
  Then(sub_u16(w.e, register_pair(w.e, "Hl"), 1), LAMBDA v :
  Done(set_register_pair(v.e, "Hl", v.value))))

load_a_into_hl_location_inc(e, opcode) ==
  Then(write_hl_location(e, a(e)), LAMBDA w :
  Then(add_u16(w.e, register_pair(w.e, "Hl"), 1), LAMBDA v :
  Done(set_register_pair(v.e, "Hl", v.value))))

load_a_into_immediate_n_location(e, opcode) ==
  Then(read_immediate_n(e), LAMBDA location_offset :
  Then(write(location_offset.e, PORT_REGISTER_START + location_offset.value, a(e)),
       LAMBDA w : Done(w.e)))

load_a_into_immediate_nn_location(e, opcode) ==
  Then(read_immediate_nn(e), LAMBDA nn :
  Then(write(nn.e, nn.value, a(e)), LAMBDA w : Done(w.e)))

load_bc_location_into_a(e, opcode) ==
  Then(read(e, register_pair(e, "Bc")), LAMBDA value : Done(set_a(value.e, value.value)))

load_c_location_into_a(e, opcode) ==
  Then(read(e, PORT_REGISTER_START + register(e, "C")), LAMBDA value :
  Done(set_a(value.e, value.value)))

load_de_location_into_a(e, opcode) ==
  Then(read(e, register_pair(e, "De")), LAMBDA value : Done(set_a(value.e, value.value)))

load_hl_into_sp(e, opcode) == Done(set_stack_pointer(e, register_pair(e, "Hl")))

load_hl_location_dec_into_a(e, opcode) ==
  LET location == register_pair(e, "Hl")
  IN Then(read(e, location), LAMBDA value :
     Then(sub_u16(set_a(value.e, value.value), location, 1), LAMBDA v :
     Done(set_register_pair(v.e, "Hl", v.value))))

load_hl_location_inc_into_a(e, opcode) ==
  LET location == register_pair(e, "Hl")
  IN Then(read(e, location), LAMBDA value :
     Then(add_u16(set_a(value.e, value.value), location, 1), LAMBDA v :
     Done(set_register_pair(v.e, "Hl", v.value))))

load_hl_location_into_register(e, opcode) ==
  Then(read(e, register_pair(e, "Hl")), LAMBDA value :
  Then(Parsed(value.e, parse_register(opcode, 56)), LAMBDA destination_register :
  Done(set_register(value.e, destination_register.value, value.value))))

load_immediate_n_into_hl_location(e, opcode) ==
  Then(read_immediate_n(e), LAMBDA n :
  Then(write_hl_location(n.e, n.value), LAMBDA w : Done(w.e)))

load_immediate_n_into_register(e, opcode) ==
  Then(read_immediate_n(e), LAMBDA n :
  Then(Parsed(n.e, parse_register(opcode, 56)), LAMBDA destination_register :
  Done(set_register(n.e, destination_register.value, n.value))))

load_immediate_n_location_into_a(e, opcode) ==
  Then(read_immediate_n(e), LAMBDA location_offset :
  Then(read(location_offset.e, PORT_REGISTER_START + location_offset.value),
       LAMBDA value : Done(set_a(value.e, value.value))))

load_immediate_nn_into_register_pair(e, opcode) ==
  Then(Parsed(e, parse_register_pair(opcode, 48)), LAMBDA pair :
  Then(read_immediate_nn(e), LAMBDA nn :
  Done(set_register_pair(nn.e, pair.value, nn.value))))

load_immediate_nn_location_into_a(e, opcode) ==
  Then(read_immediate_nn(e), LAMBDA nn :
  Then(read(nn.e, nn.value), LAMBDA value : Done(set_a(value.e, value.value))))

load_register_into_hl_location(e, opcode) ==
  Then(Parsed(e, parse_register(opcode, 7)), LAMBDA source_register :
  Then(write_hl_location(e, register(e, source_register.value)), LAMBDA w : Done(w.e)))

load_register_into_register(e, opcode) ==
  Then(Parsed(e, parse_register(opcode, 7)), LAMBDA source_register :
  Then(Parsed(e, parse_register(opcode, 56)), LAMBDA destination_register :
  Done(set_register(e, destination_register.value, register(e, source_register.value)))))

load_sp_and_immediate_e_into_hl(e, opcode) ==
  Then(read_immediate_e(e), LAMBDA v :
  Then(add_signed(v.e, v.e.stack_pointer, v.value, FALSE), LAMBDA value :
  Done(set_register_pair(value.e, "Hl", value.value))))

load_sp_into_nn_location(e, opcode) ==
  Then(read_immediate_nn(e), LAMBDA nn :
  Then(write(nn.e, nn.value, to_le_bytes(nn.e.stack_pointer)[1]), LAMBDA w1 :
  Then(write(w1.e, (nn.value + 1) % 65536, to_le_bytes(nn.e.stack_pointer)[2]),
       LAMBDA w2 : Done(w2.e))))

pop_register_pair(e, opcode) ==
  Then(Parsed(e, parse_register_pair(opcode, 48)), LAMBDA pair :
  Then(read(e, e.stack_pointer), LAMBDA low :
  Then(add_u16(low.e, low.e.stack_pointer, 1), LAMBDA l :
  Then(read(l.e, l.value), LAMBDA high :
  LET set == set_register_pair(high.e, pair.value, from_le_bytes(low.value, high.value))
  IN Then(add_u16(set, set.stack_pointer, 2), LAMBDA sp :
     Done(set_stack_pointer(sp.e, sp.value)))))))

push_register_pair(e, opcode) ==
  Then(Parsed(e, parse_register_pair(opcode, 48)), LAMBDA pair :
  LET low == to_le_bytes(register_pair(e, pair.value))[1]
      high == to_le_bytes(register_pair(e, pair.value))[2]
  IN Then(sub_u16(e, e.stack_pointer, 1), LAMBDA l1 :
     Then(write(l1.e, l1.value, high), LAMBDA w1 :
     Then(sub_u16(w1.e, w1.e.stack_pointer, 2), LAMBDA l2 :
     Then(write(l2.e, l2.value, low), LAMBDA w2 :
     Then(sub_u16(w2.e, w2.e.stack_pointer, 2), LAMBDA sp :
     Done(set_stack_pointer(sp.e, sp.value))))))))

(***************************************************************************)
(* instruction/arithmetic_instructions.rs                                  *)
(***************************************************************************)
add_hl_location_to_a(e, opcode) ==
  Then(read_hl_location(e), LAMBDA value : Done(add_to_a(value.e, value.value, FALSE)))

add_immediate_e_to_sp(e, opcode) ==
  Then(read_immediate_e(e), LAMBDA v :
  Then(add_signed(v.e, v.e.stack_pointer, v.value, FALSE), LAMBDA value :
  Done(set_stack_pointer(value.e, value.value))))

add_immediate_n_to_a(e, opcode) ==
  Then(read_immediate_n(e), LAMBDA n : Done(add_to_a(n.e, n.value, FALSE)))

add_register_pair_to_hl(e, opcode) ==
  Then(Parsed(e, parse_register_pair(opcode, 48)), LAMBDA pair :
  Then(add_unsigned(e, hl(e), register_pair(e, pair.value), FALSE, 16), LAMBDA value :
  Done(set_hl(value.e, value.value))))

add_register_to_a(e, opcode) ==
  Then(Parsed(e, parse_register(opcode, 7)), LAMBDA r :
  Done(add_to_a(e, register(e, r.value), FALSE)))

add_with_carry_hl_location_to_a(e, opcode) ==
  Then(read_hl_location(e), LAMBDA value : Done(add_to_a(value.e, value.value, TRUE)))

add_with_carry_immediate_n_to_a(e, opcode) ==
  Then(read_immediate_n(e), LAMBDA n : Done(add_to_a(n.e, n.value, TRUE)))

add_with_carry_register_to_a(e, opcode) ==
  Then(Parsed(e, parse_register(opcode, 7)), LAMBDA r :
  Done(add_to_a(e, register(e, r.value), TRUE)))

compare_hl_location_with_a(e, opcode) ==
  Then(read_hl_location(e), LAMBDA value :
  Done(subtract_unsigned(value.e, a(e), value.value, FALSE, 8).e))

compare_immediate_n_with_a(e, opcode) ==
  Then(read_immediate_n(e), LAMBDA value :
  Done(subtract_unsigned(value.e, a(e), value.value, FALSE, 8).e))

compare_register_with_a(e, opcode) ==
  Then(Parsed(e, parse_register(opcode, 7)), LAMBDA r :
  Done(subtract_unsigned(e, a(e), register(e, r.value), FALSE, 8).e))

dec_hl_location(e, opcode) ==
  Then(read_hl_location(e), LAMBDA value :
  Then(subtract_unsigned(value.e, value.value, 1, FALSE, 8), LAMBDA dif :
  Then(write_hl_location(dif.e, dif.value), LAMBDA w : Done(w.e))))

dec_register(e, opcode) ==
  Then(Parsed(e, parse_register(opcode, 56)), LAMBDA r :
  Then(subtract_unsigned(e, register(e, r.value), 1, FALSE, 8), LAMBDA dif :
  Done(set_register(dif.e, r.value, dif.value))))

dec_register_pair(e, opcode) ==
  Then(Parsed(e, parse_register_pair(opcode, 48)), LAMBDA pair :
  Done(set_register_pair(e, pair.value, (register_pair(e, pair.value) - 1) % 65536)))

inc_hl_location(e, opcode) ==
  Then(read_hl_location(e), LAMBDA value :
  Then(add_unsigned(value.e, value.value, 1, FALSE, 8), LAMBDA sum :
  Then(write_hl_location(sum.e, sum.value), LAMBDA w : Done(w.e))))

inc_register(e, opcode) ==
  Then(Parsed(e, parse_register(opcode, 56)), LAMBDA r :
  Then(add_unsigned(e, register(e, r.value), 1, FALSE, 8), LAMBDA sum :
  Done(set_register(sum.e, r.value, sum.value))))

inc_register_pair(e, opcode) ==
  Then(Parsed(e, parse_register_pair(opcode, 48)), LAMBDA pair :
  Done(set_register_pair(e, pair.value, (register_pair(e, pair.value) + 1) % 65536)))

sub_hl_location_from_a(e, opcode) ==
  Then(read_hl_location(e), LAMBDA value :
  Done(subtract_from_a(value.e, value.value, FALSE)))

sub_immediate_n_from_a(e, opcode) ==
  Then(read_immediate_n(e), LAMBDA n : Done(subtract_from_a(n.e, n.value, FALSE)))

sub_register_from_a(e, opcode) ==
  Then(Parsed(e, parse_register(opcode, 7)), LAMBDA r :
  Done(subtract_from_a(e, register(e, r.value), FALSE)))

sub_with_carry_hl_location_from_a(e, opcode) ==
  Then(read_hl_location(e), LAMBDA value :
  Done(subtract_from_a(value.e, value.value, TRUE)))

sub_with_carry_immediate_n_from_a(e, opcode) ==
  Then(read_immediate_n(e), LAMBDA n : Done(subtract_from_a(n.e, n.value, TRUE)))

sub_with_carry_register_from_a(e, opcode) ==
  Then(Parsed(e, parse_register(opcode, 7)), LAMBDA r :
  Done(subtract_from_a(e, register(e, r.value), TRUE)))

(***************************************************************************)
(* instruction/logical_instructions.rs                                     *)
(***************************************************************************)
\* AND (HL) reading the location twice
and_hl_location_read_twice(e, opcode) ==
  Then(read(e, register_pair(e, "Hl")), LAMBDA first :
  Then(read(first.e, register_pair(first.e, "Hl")), LAMBDA value :
  Done(bitwise_and_with_a(value.e, value.value))))
and_hl_location(e, opcode) ==
  Then(read(e, register_pair(e, "Hl")), LAMBDA value :
  Done(bitwise_and_with_a(value.e, value.value)))
and_immediate_n(e, opcode) ==
  Then(read_immediate_n(e), LAMBDA n : Done(bitwise_and_with_a(n.e, n.value)))
and_register(e, opcode) ==
  Then(Parsed(e, parse_register(opcode, 7)), LAMBDA r :
  Done(bitwise_and_with_a(e, register(e, r.value))))
or_hl_location(e, opcode) ==
  Then(read(e, register_pair(e, "Hl")), LAMBDA value :
  Done(bitwise_or_with_a(value.e, value.value)))
or_immediate_n(e, opcode) ==
  Then(read_immediate_n(e), LAMBDA n : Done(bitwise_or_with_a(n.e, n.value)))
or_register(e, opcode) ==
  Then(Parsed(e, parse_register(opcode, 7)), LAMBDA r :
  Done(bitwise_or_with_a(e, register(e, r.value))))
xor_hl_location(e, opcode) ==
  Then(read(e, register_pair(e, "Hl")), LAMBDA value :
  Done(bitwise_xor_with_a(value.e, value.value)))
xor_immediate_n(e, opcode) ==
  Then(read_immediate_n(e), LAMBDA n : Done(bitwise_xor_with_a(n.e, n.value)))
xor_register(e, opcode) ==
  Then(Parsed(e, parse_register(opcode, 7)), LAMBDA r :
  Done(bitwise_xor_with_a(e, register(e, r.value))))

(***************************************************************************)
(* instruction/bit_instructions.rs                                         *)
(***************************************************************************)
\* bit counting the index from bit 7 down
bit_from_the_top(value, bit_index) == BitAnd(value, Pow2(7 - bit_index)) > 0
bit(value, bit_index) == BitAnd(value, Pow2(bit_index)) > 0

bit_complement_of_hl_location(e, opcode) ==
  Then(read_hl_location(e), LAMBDA value :
  Done(set_flag(set_flag(set_flag(value.e, Flag_H, TRUE), Flag_N, FALSE),
                Flag_Z, ~bit(value.value, parse_bit(opcode, 56)))))

bit_complement_of_register(e, opcode) ==
  Then(Parsed(e, parse_register(opcode, 7)), LAMBDA r :
  Done(set_flag(set_flag(set_flag(e, Flag_H, TRUE), Flag_N, FALSE),
                Flag_Z, ~bit(register(e, r.value), parse_bit(opcode, 56)))))

reset_bit_of_hl_location(e, opcode) ==
  Then(read_hl_location(e), LAMBDA value :
  Then(write_hl_location(value.e,
                         BitAnd(value.value, BitNot(Pow2(parse_bit(opcode, 56))))),
       LAMBDA w : Done(w.e)))

reset_bit_of_register(e, opcode) ==
  Then(Parsed(e, parse_register(opcode, 7)), LAMBDA r :
  Done(set_register(e, r.value,
                    BitAnd(register(e, r.value), BitNot(Pow2(parse_bit(opcode, 56)))))))

set_bit_of_hl_location(e, opcode) ==
  Then(read_hl_location(e), LAMBDA value :
  Then(write_hl_location(value.e, BitOr(value.value, Pow2(parse_bit(opcode, 56)))),
       LAMBDA w : Done(w.e)))

set_bit_of_register(e, opcode) ==
  Then(Parsed(e, parse_register(opcode, 7)), LAMBDA r :
  Done(set_register(e, r.value,
                    BitOr(register(e, r.value), Pow2(parse_bit(opcode, 56))))))

(***************************************************************************)
(* instruction/rotating_instructions.rs                                    *)
(***************************************************************************)
set_rotation_flags(e, value) ==
  set_flag(set_flag(set_flag(e, Flag_H, FALSE), Flag_N, FALSE), Flag_Z, value = 0)

rotate_value_left(e, value, with_copy) ==
  LET a7 == BitAnd(value, 128) > 0
      bit_in == IF with_copy THEN a7 ELSE flag(e, Flag_CY)
      rotated_value == ((2 * value) % 256) + (IF bit_in THEN 1 ELSE 0)
  IN R(set_rotation_flags(set_flag(e, Flag_CY, a7), rotated_value), rotated_value, Ok)

\* rotate_value_right always copying bit 0 into bit 7
rotate_value_right_always_copy(e, value, with_copy) ==
  LET a0 == BitAnd(value, 1) > 0
      rotated_value == (value \div 2) + (IF a0 THEN 128 ELSE 0)
  IN R(set_rotation_flags(set_flag(e, Flag_CY, a0), rotated_value), rotated_value, Ok)

rotate_value_right(e, value, with_copy) ==
  LET a0 == BitAnd(value, 1) > 0
      bit_in == IF with_copy THEN a0 ELSE flag(e, Flag_CY)
      rotated_value == (value \div 2) + (IF bit_in THEN 128 ELSE 0)
  IN R(set_rotation_flags(set_flag(e, Flag_CY, a0), rotated_value), rotated_value, Ok)

shift_value_left(e, value) ==
  LET shifted_value == (2 * value) % 256
  IN R(set_rotation_flags(set_flag(e, Flag_CY, BitAnd(value, 128) > 0), shifted_value),
       shifted_value, Ok)

shift_value_right(e, value, copy_bit) ==
  LET v7 == BitAnd(value, 128) > 0
      shifted_value == (value \div 2) + (IF copy_bit /\ v7 THEN 128 ELSE 0)
  IN R(set_rotation_flags(set_flag(e, Flag_CY, v7), shifted_value), shifted_value, Ok)

\* The four accumulator rotations, and the shapes the others share: the
\* operand at HL and the operand in a register
rotate_a(e, rotated) ==
  Then(rotated, LAMBDA r : Done(set_flag(set_a(r.e, r.value), Flag_Z, FALSE)))
rotate_a_left_copy_carry(e, opcode) == rotate_a(e, rotate_value_left(e, a(e), TRUE))
rotate_a_left_through_carry(e, opcode) == rotate_a(e, rotate_value_left(e, a(e), FALSE))
rotate_a_right_copy_carry(e, opcode) == rotate_a(e, rotate_value_right(e, a(e), TRUE))
rotate_a_right_through_carry(e, opcode) == rotate_a(e, rotate_value_right(e, a(e), FALSE))

on_hl_location(e, change(_, _)) ==
  Then(read_hl_location(e), LAMBDA value :
  Then(change(value.e, value.value), LAMBDA changed :
  Then(write_hl_location(changed.e, changed.value), LAMBDA w : Done(w.e))))
on_register(e, opcode, change(_, _)) ==
  Then(Parsed(e, parse_register(opcode, 7)), LAMBDA r :
  Then(change(e, register(e, r.value)), LAMBDA changed :
  Done(set_register(changed.e, r.value, changed.value))))

rotate_hl_location_left_copy_carry(e, opcode) ==
  on_hl_location(e, LAMBDA x, v : rotate_value_left(x, v, TRUE))
rotate_hl_location_left_through_carry(e, opcode) ==
  on_hl_location(e, LAMBDA x, v : rotate_value_left(x, v, FALSE))
rotate_hl_location_right_copy_carry(e, opcode) ==
  on_hl_location(e, LAMBDA x, v : rotate_value_right(x, v, TRUE))
rotate_hl_location_right_through_carry(e, opcode) ==
  on_hl_location(e, LAMBDA x, v : rotate_value_right(x, v, FALSE))
rotate_register_left_copy_carry(e, opcode) ==
  on_register(e, opcode, LAMBDA x, v : rotate_value_left(x, v, TRUE))
rotate_register_left_through_carry(e, opcode) ==
  on_register(e, opcode, LAMBDA x, v : rotate_value_left(x, v, FALSE))
rotate_register_right_copy_carry(e, opcode) ==
  on_register(e, opcode, LAMBDA x, v : rotate_value_right(x, v, TRUE))
rotate_register_right_through_carry(e, opcode) ==
  on_register(e, opcode, LAMBDA x, v : rotate_value_right(x, v, FALSE))
shift_hl_location_left(e, opcode) ==
  on_hl_location(e, LAMBDA x, v : shift_value_left(x, v))
shift_hl_location_right(e, opcode) ==
  on_hl_location(e, LAMBDA x, v : shift_value_right(x, v, FALSE))
shift_hl_location_right_copy_bit(e, opcode) ==
  on_hl_location(e, LAMBDA x, v : shift_value_right(x, v, TRUE))
shift_register_left(e, opcode) ==
  on_register(e, opcode, LAMBDA x, v : shift_value_left(x, v))
shift_register_right(e, opcode) ==
  on_register(e, opcode, LAMBDA x, v : shift_value_right(x, v, FALSE))
shift_register_right_copy_bit(e, opcode) ==
  on_register(e, opcode, LAMBDA x, v : shift_value_right(x, v, TRUE))

swap_flags(e, value) ==
  set_flag(set_flag(set_flag(set_flag(e, Flag_CY, FALSE), Flag_H, FALSE),
                    Flag_N, FALSE), Flag_Z, value = 0)
swap_bits_of_hl_location(e, opcode) ==
  Then(read_hl_location(e), LAMBDA value :
  LET swapped == (value.value \div 16) + 16 * (value.value % 16)
  IN Then(write_hl_location(value.e, swapped), LAMBDA w : Done(swap_flags(w.e, swapped))))
swap_bits_of_register(e, opcode) ==
  Then(Parsed(e, parse_register(opcode, 7)), LAMBDA r :
  LET swapped == (register(e, r.value) \div 16) + 16 * (register(e, r.value) % 16)
  IN Done(swap_flags(set_register(e, r.value, swapped), swapped)))

\* The call op(self, opcode) of the instruction the table names
run_op(op, e, opcode) ==
  CASE op = "add_hl_location_to_a" -> add_hl_location_to_a(e, opcode)
    [] op = "add_immediate_e_to_sp" -> add_immediate_e_to_sp(e, opcode)
    [] op = "add_immediate_n_to_a" -> add_immediate_n_to_a(e, opcode)
    [] op = "add_register_pair_to_hl" -> add_register_pair_to_hl(e, opcode)
    [] op = "add_register_to_a" -> add_register_to_a(e, opcode)
    [] op = "add_with_carry_hl_location_to_a" -> add_with_carry_hl_location_to_a(e, opcode)
    [] op = "add_with_carry_immediate_n_to_a" -> add_with_carry_immediate_n_to_a(e, opcode)
    [] op = "add_with_carry_register_to_a" -> add_with_carry_register_to_a(e, opcode)
    [] op = "and_hl_location" -> and_hl_location(e, opcode)
    [] op = "and_immediate_n" -> and_immediate_n(e, opcode)
    [] op = "and_register" -> and_register(e, opcode)
    [] op = "bit_complement_of_hl_location" -> bit_complement_of_hl_location(e, opcode)
    [] op = "bit_complement_of_register" -> bit_complement_of_register(e, opcode)
    [] op = "call" -> call(e, opcode)
    [] op = "call_if_condition" -> call_if_condition(e, opcode)
    [] op = "compare_hl_location_with_a" -> compare_hl_location_with_a(e, opcode)
    [] op = "compare_immediate_n_with_a" -> compare_immediate_n_with_a(e, opcode)
    [] op = "compare_register_with_a" -> compare_register_with_a(e, opcode)
    [] op = "complement_a" -> complement_a(e, opcode)
    [] op = "dec_hl_location" -> dec_hl_location(e, opcode)
    [] op = "dec_register" -> dec_register(e, opcode)
    [] op = "dec_register_pair" -> dec_register_pair(e, opcode)
    [] op = "decimal_adjust_a" -> decimal_adjust_a(e, opcode)
    [] op = "di" -> di(e, opcode)
    [] op = "ei" -> ei(e, opcode)
    [] op = "flip_carry" -> flip_carry(e, opcode)
    [] op = "halt" -> halt(e, opcode)
    [] op = "inc_hl_location" -> inc_hl_location(e, opcode)
    [] op = "inc_register" -> inc_register(e, opcode)
    [] op = "inc_register_pair" -> inc_register_pair(e, opcode)
    [] op = "jump_to_hl" -> jump_to_hl(e, opcode)
    [] op = "jump_to_immediate_e" -> jump_to_immediate_e(e, opcode)
    [] op = "jump_to_immediate_e_if_condition" -> jump_to_immediate_e_if_condition(e, opcode)
    [] op = "jump_to_immediate_nn" -> jump_to_immediate_nn(e, opcode)
    [] op = "jump_to_immediate_nn_if_condition" -> jump_to_immediate_nn_if_condition(e, opcode)
    [] op = "load_a_into_bc_location" -> load_a_into_bc_location(e, opcode)
    [] op = "load_a_into_c_location" -> load_a_into_c_location(e, opcode)
    [] op = "load_a_into_de_location" -> load_a_into_de_location(e, opcode)
    [] op = "load_a_into_hl_location_dec" -> load_a_into_hl_location_dec(e, opcode)
    [] op = "load_a_into_hl_location_inc" -> load_a_into_hl_location_inc(e, opcode)
    [] op = "load_a_into_immediate_n_location" -> load_a_into_immediate_n_location(e, opcode)
    [] op = "load_a_into_immediate_nn_location" -> load_a_into_immediate_nn_location(e, opcode)
    [] op = "load_bc_location_into_a" -> load_bc_location_into_a(e, opcode)
    [] op = "load_c_location_into_a" -> load_c_location_into_a(e, opcode)
    [] op = "load_de_location_into_a" -> load_de_location_into_a(e, opcode)
    [] op = "load_hl_into_sp" -> load_hl_into_sp(e, opcode)
    [] op = "load_hl_location_dec_into_a" -> load_hl_location_dec_into_a(e, opcode)
    [] op = "load_hl_location_inc_into_a" -> load_hl_location_inc_into_a(e, opcode)
    [] op = "load_hl_location_into_register" -> load_hl_location_into_register(e, opcode)
    [] op = "load_immediate_n_into_hl_location" -> load_immediate_n_into_hl_location(e, opcode)
    [] op = "load_immediate_n_into_register" -> load_immediate_n_into_register(e, opcode)
    [] op = "load_immediate_n_location_into_a" -> load_immediate_n_location_into_a(e, opcode)
    [] op = "load_immediate_nn_into_register_pair" -> load_immediate_nn_into_register_pair(e, opcode)
    [] op = "load_immediate_nn_location_into_a" -> load_immediate_nn_location_into_a(e, opcode)
    [] op = "load_register_into_hl_location" -> load_register_into_hl_location(e, opcode)
    [] op = "load_register_into_register" -> load_register_into_register(e, opcode)
    [] op = "load_sp_and_immediate_e_into_hl" -> load_sp_and_immediate_e_into_hl(e, opcode)
    [] op = "load_sp_into_nn_location" -> load_sp_into_nn_location(e, opcode)
    [] op = "noop" -> noop(e, opcode)
    [] op = "or_hl_location" -> or_hl_location(e, opcode)
    [] op = "or_immediate_n" -> or_immediate_n(e, opcode)
    [] op = "or_register" -> or_register(e, opcode)
    [] op = "pop_register_pair" -> pop_register_pair(e, opcode)
    [] op = "prefix" -> prefix(e, opcode)
    [] op = "push_register_pair" -> push_register_pair(e, opcode)
    [] op = "reset_bit_of_hl_location" -> reset_bit_of_hl_location(e, opcode)
    [] op = "reset_bit_of_register" -> reset_bit_of_register(e, opcode)
    [] op = "reset_to_page" -> reset_to_page(e, opcode)
    [] op = "ret" -> ret(e, opcode)
    [] op = "ret_if_condition" -> ret_if_condition(e, opcode)
    [] op = "reti" -> reti(e, opcode)
    [] op = "rotate_a_left_copy_carry" -> rotate_a_left_copy_carry(e, opcode)
    [] op = "rotate_a_left_through_carry" -> rotate_a_left_through_carry(e, opcode)
    [] op = "rotate_a_right_copy_carry" -> rotate_a_right_copy_carry(e, opcode)
    [] op = "rotate_a_right_through_carry" -> rotate_a_right_through_carry(e, opcode)
    [] op = "rotate_hl_location_left_copy_carry" -> rotate_hl_location_left_copy_carry(e, opcode)
    [] op = "rotate_hl_location_left_through_carry" -> rotate_hl_location_left_through_carry(e, opcode)
    [] op = "rotate_hl_location_right_copy_carry" -> rotate_hl_location_right_copy_carry(e, opcode)
    [] op = "rotate_hl_location_right_through_carry" -> rotate_hl_location_right_through_carry(e, opcode)
    [] op = "rotate_register_left_copy_carry" -> rotate_register_left_copy_carry(e, opcode)
    [] op = "rotate_register_left_through_carry" -> rotate_register_left_through_carry(e, opcode)
    [] op = "rotate_register_right_copy_carry" -> rotate_register_right_copy_carry(e, opcode)
    [] op = "rotate_register_right_through_carry" -> rotate_register_right_through_carry(e, opcode)
    [] op = "set_bit_of_hl_location" -> set_bit_of_hl_location(e, opcode)
    [] op = "set_bit_of_register" -> set_bit_of_register(e, opcode)
    [] op = "set_carry" -> set_carry(e, opcode)
    [] op = "shift_hl_location_left" -> shift_hl_location_left(e, opcode)
    [] op = "shift_hl_location_right" -> shift_hl_location_right(e, opcode)
    [] op = "shift_hl_location_right_copy_bit" -> shift_hl_location_right_copy_bit(e, opcode)
    [] op = "shift_register_left" -> shift_register_left(e, opcode)
    [] op = "shift_register_right" -> shift_register_right(e, opcode)
    [] op = "shift_register_right_copy_bit" -> shift_register_right_copy_bit(e, opcode)
    [] op = "stop" -> stop(e, opcode)
    [] op = "sub_hl_location_from_a" -> sub_hl_location_from_a(e, opcode)
    [] op = "sub_immediate_n_from_a" -> sub_immediate_n_from_a(e, opcode)
    [] op = "sub_register_from_a" -> sub_register_from_a(e, opcode)
    [] op = "sub_with_carry_hl_location_from_a" -> sub_with_carry_hl_location_from_a(e, opcode)
    [] op = "sub_with_carry_immediate_n_from_a" -> sub_with_carry_immediate_n_from_a(e, opcode)
    [] op = "sub_with_carry_register_from_a" -> sub_with_carry_register_from_a(e, opcode)
    [] op = "swap_bits_of_hl_location" -> swap_bits_of_hl_location(e, opcode)
    [] op = "swap_bits_of_register" -> swap_bits_of_register(e, opcode)
    [] op = "xor_hl_location" -> xor_hl_location(e, opcode)
    [] op = "xor_immediate_n" -> xor_immediate_n(e, opcode)
    [] op = "xor_register" -> xor_register(e, opcode)

(***************************************************************************)
(* emulator.rs: Emulator::new, process_opcode, process_cycles.             *)
(***************************************************************************)
\* crate::addresses, which emulator.rs imports
PROGRAM_COUNTER_START == 256

\* The fields of Emulator::new() but the table, for a build
Emulator_new(checks) ==
  [cycles_processed |-> 0, flags |-> 0, interrupt_master_enable |-> FALSE,
   jumped |-> FALSE, prefixed |-> FALSE, program_counter |-> PROGRAM_COUNTER_START,
   registers |-> [r \in {"A", "B", "C", "D", "E", "H", "L"} |->
                    IF r = "B" THEN 1 ELSE 0],
   stack_pointer |-> 0, state |-> "Run",
   components |-> MemoryMapping_new.components,
   memory_mapping |-> MemoryMapping_new.memory_mapping,
   aborted |-> FALSE, overflow_checks |-> checks,
   bus_reads |-> 0, bus_writes |-> 0, pc_sets |-> 0, failure |-> << >>]

\* Emulator::add_memory_component
add_memory_component(e, memory_component) ==
  WithBus(e, register_component(BusOf(e), memory_component))

\* Emulator::memory_location without its unwrap: [value, err]
memory_location(e, location) ==
  Let(MemoryMapping_read(BusOf(e), location), LAMBDA r :
  [value |-> r.value, err |-> r.err])

\* Emulator::process_opcode on the table (ops, map): [e, value, err,
\* opcode, lookup]; opcode is the byte fetched, -1 when the fetch failed,
\* and lookup the prefix half of the key looked up
process_opcode(e, ops, map) ==
  Let(read(e, e.program_counter), LAMBDA fetched :
  IF Failed(fetched)
  THEN [e |-> fetched.e, value |-> 0, err |-> fetched.err, opcode |-> -1,
        lookup |-> e.prefixed]
  ELSE Let([fetched.e EXCEPT !.program_counter = (@ + 1) % 65536], LAMBDA advanced :
       Let(IF advanced.prefixed
           THEN IF << TRUE, fetched.value >> \in DOMAIN map
                THEN run_op(ops[map[<< TRUE, fetched.value >>] + 1],
                            set_prefix(advanced, FALSE), fetched.value)
                ELSE R(set_prefix(advanced, FALSE), 0,
                       Unimplemented(FALSE, fetched.value))
           ELSE IF << FALSE, fetched.value >> \in DOMAIN map
                THEN run_op(ops[map[<< FALSE, fetched.value >>] + 1], advanced,
                            fetched.value)
                ELSE R(advanced, 0, Unimplemented(TRUE, fetched.value)),
           LAMBDA ran :
       [e |-> ran.e, value |-> 0, err |-> ran.err, opcode |-> fetched.value,
        lookup |-> advanced.prefixed])))

\* Emulator::process_cycles
process_cycles(e) ==
  [e EXCEPT !.cycles_processed = 0, !.bus_reads = 0, !.bus_writes = 0, !.pc_sets = 0]

(***************************************************************************)
(* The state as the record the operators work on, and back.                *)
(***************************************************************************)
Emulator ==
  [cycles_processed |-> cycles_processed, flags |-> flags,
   interrupt_master_enable |-> interrupt_master_enable, jumped |-> jumped,
   prefixed |-> prefixed, program_counter |-> program_counter,
   registers |-> registers, stack_pointer |-> stack_pointer, state |-> state,
   components |-> components, memory_mapping |-> memory_mapping,
   aborted |-> aborted, overflow_checks |-> overflow_checks,
   bus_reads |-> bus_reads, bus_writes |-> bus_writes, pc_sets |-> pc_sets,
   failure |-> << >>]

Becomes(e) ==
  /\ cycles_processed' = e.cycles_processed
  /\ flags' = e.flags
  /\ interrupt_master_enable' = e.interrupt_master_enable
  /\ jumped' = e.jumped
  /\ prefixed' = e.prefixed
  /\ program_counter' = e.program_counter
  /\ registers' = e.registers
  /\ stack_pointer' = e.stack_pointer
  /\ state' = e.state
  /\ components' = e.components
  /\ memory_mapping' = e.memory_mapping
  /\ aborted' = e.aborted
  /\ overflow_checks' = e.overflow_checks
  /\ bus_reads' = e.bus_reads
  /\ bus_writes' = e.bus_writes
  /\ pc_sets' = e.pc_sets

Starts(e) ==
  /\ cycles_processed = e.cycles_processed
  /\ flags = e.flags
  /\ interrupt_master_enable = e.interrupt_master_enable
  /\ jumped = e.jumped
  /\ prefixed = e.prefixed
  /\ program_counter = e.program_counter
  /\ registers = e.registers
  /\ stack_pointer = e.stack_pointer
  /\ state = e.state
  /\ components = e.components
  /\ memory_mapping = e.memory_mapping
  /\ aborted = e.aborted
  /\ overflow_checks = e.overflow_checks
  /\ bus_reads = e.bus_reads
  /\ bus_writes = e.bus_writes
  /\ pc_sets = e.pc_sets

HoldsTable(t) ==
  /\ instructions = t.instructions
  /\ instruction_map = t.instruction_map
  /\ name_map = t.name_map
(***************************************************************************)
(* The construction of the table: add_instructions, one add_instruction    *)
(* at a time, on a new emulator.                                           *)
(***************************************************************************)
\* What the last call returned: the call, its address and value, the
\* Result, and the index of the component a bus access went to
Outcome(op, location, value, err, delegate) ==
  [op |-> op, location |-> location, value |-> value, err |-> err,
   delegate |-> delegate]

InitRun ==
  /\ result = Outcome("new", 0, 0, Ok, 0)
  /\ steps = 0
  /\ trace = << >>

InitTable ==
  /\ \E checks \in BOOLEAN : \E e \in { Emulator_new(checks) } : Starts(e)
  /\ HoldsTable(NewTable)
  /\ installed = 0
  /\ InitRun

AddInstruction ==
  /\ ~aborted
  /\ installed < Len(add_instructions)
  /\ \E t \in { add_instruction([instructions |-> instructions,
                                    instruction_map |-> instruction_map,
                                    name_map |-> name_map, panic |-> FALSE],
                                   add_instructions[installed + 1]) } :
       /\ instructions' = t.instructions
       /\ instruction_map' = t.instruction_map
       /\ name_map' = t.name_map
       /\ aborted' = t.panic
  /\ installed' = installed + 1
  /\ UNCHANGED << emulatorVars, busVars, overflow_checks, result, countVars >>

NextTable == AddInstruction
SpecTable == InitTable /\ [][NextTable]_vars

(***************************************************************************)
(* The bus: an emulator from Emulator::new() or Emulator::default(),       *)
(* add_memory_component, read and write.                                   *)
(***************************************************************************)
MaxBusSteps == 3

\* impl Default for Emulator, the components it adds
Emulator_default(checks) ==
  add_memory_component(
    add_memory_component(
      add_memory_component(
        add_memory_component(
          add_memory_component(Emulator_new(checks), SerialTransferComponent_new),
          SoundComponent_new),
        StackComponent_new),
      UnusableRamComponent_new),
    WorkRamComponent_new)

\* The components a caller adds: those of the crate, and two TestComponents
\* of tests/common, one over a work RAM and a stack address, one at 0xFFFF
Registrable ==
  { SerialTransferComponent_new, SoundComponent_new, StackComponent_new,
    UnusableRamComponent_new, WorkRamComponent_new,
    TestComponent_new((49152 :> 9) @@ (65408 :> 9)),
    TestComponent_new(65535 :> 1) }

WriteValues == {171}

InitBus ==
  /\ \E checks \in BOOLEAN :
       \/ /\ \E e \in { Emulator_new(checks) } : Starts(e)
          /\ HoldsTable(NewTable)
          /\ installed = 0
       \/ /\ \E e \in { Emulator_default(checks) } : Starts(e)
          /\ HoldsTable(DefaultTable)
          /\ installed = Len(add_instructions)
  /\ InitRun

RegisterComponent ==
  /\ ~aborted
  /\ steps < MaxBusSteps
  /\ \E component \in Registrable :
       \E e \in { add_memory_component(Emulator, component) } :
         /\ Becomes(e)
         /\ result' = Outcome("register", 0, 0, Ok, Len(components))
  /\ steps' = steps + 1
  /\ UNCHANGED << tableVars, trace >>

BusRead ==
  /\ ~aborted
  /\ steps < MaxBusSteps
  /\ \E location \in Locations :
       \E r \in { read(Emulator, location) } :
         /\ Becomes(r.e)
         /\ result' = Outcome("read", location, r.value, r.err,
                              MemoryMapping_read(BusOf(Emulator), location).delegate)
  /\ steps' = steps + 1
  /\ UNCHANGED << tableVars, trace >>

BusWrite ==
  /\ ~aborted
  /\ steps < MaxBusSteps
  /\ \E location \in Locations, value \in WriteValues :
       \E r \in { write(Emulator, location, value) } :
         /\ Becomes(r.e)
         /\ result' = Outcome("write", location, value, r.err,
                              MemoryMapping_write(BusOf(Emulator), location, value).delegate)
  /\ steps' = steps + 1
  /\ UNCHANGED << tableVars, trace >>

NextBus == RegisterComponent \/ BusRead \/ BusWrite
SpecBus == InitBus /\ [][NextBus]_vars

(***************************************************************************)
(* The processor: an emulator built the way tests/common builds one        *)
(* (Emulator::new, add_instructions, add_memory_component of a             *)
(* TestComponent over the program and the cells it may use), set up with   *)
(* the public setters, and then stepped with process_opcode.               *)
(***************************************************************************)
MaxSteps == 4

\* A HashMap of the bytes from base on
At(base, bytes) == [i \in base..(base + Len(bytes) - 1) |-> bytes[i - base + 1]]

\* Programs at PROGRAM_COUNTER_START; the bytes past a program are mapped
\* by no component but the catch-all
Programs ==
  { At(PROGRAM_COUNTER_START, bytes) :
      bytes \in { << 0, 0 >>,            \* NOP; NOP
                  << 203, 0 >>,          \* CB 00: RLC B
                  << 203 >>,             \* CB and no byte after it
                  << 203, 6 >>,          \* CB 06: RLC (HL)
                  << 203, 203, 0 >>,     \* CB CB: SET 1,E; NOP
                  << 211 >>,             \* D3
                  << 118, 0 >>,          \* HALT; NOP
                  << 16, 0 >>,           \* STOP
                  << 243, 251 >>,        \* DI; EI
                  << 245, 241 >>,        \* PUSH AF; POP AF
                  << 197, 193 >>,        \* PUSH BC; POP BC
                  << 213, 209 >>,        \* PUSH DE; POP DE
                  << 229, 225 >>,        \* PUSH HL; POP HL
                  << 49, 52, 18 >>,      \* 31: LD ss,nn with ss = 11
                  << 1, 52, 18 >>,       \* LD BC,nn
                  << 51, 3 >>,           \* 33: INC ss with ss = 11; INC BC
                  << 59, 11 >>,          \* 3B: DEC ss with ss = 11; DEC BC
                  << 57, 9 >>,           \* 39: ADD HL,ss with ss = 11; ADD HL,BC
                  << 195, 0, 1 >>,       \* JP 0x0100
                  << 24, 254 >>,         \* JR -2
                  << 233 >>,             \* JP (HL)
                  << 234, 0, 192 >>,     \* LD (0xC000),A
                  << 54, 7, 126 >>,      \* LD (HL),7; LD A,(HL)
                  << 201 >>,             \* RET
                  << 199 >>,             \* RST 0
                  << 32, 5 >>,           \* JR NZ,+5
                  << 40, 5 >>,           \* JR Z,+5
                  << 48, 5 >>,           \* JR NC,+5
                  << 56, 5 >>,           \* JR C,+5
                  << 194, 0, 1 >>,       \* JP NZ,0x0100
                  << 202, 0, 1 >>,       \* JP Z,0x0100
                  << 210, 0, 1 >>,       \* JP NC,0x0100
                  << 218, 0, 1 >>,       \* JP C,0x0100
                  << 24, 128 >>,         \* JR -128
                  << 24, 127 >>,         \* JR +127
                  << 24, 255 >>,         \* JR -1
                  << 118, 60 >>,         \* HALT; INC A
                  << 16, 60 >>,          \* STOP; INC A
                  << 251, 243 >>,        \* EI; DI
                  << 251, 0 >>,          \* EI; NOP
                  << 217 >>,             \* RETI
                  << 62 >>,              \* LD A,n and no byte after it
                  << 193 >> }            \* POP BC
      \cup { << opcode >> : opcode \in UNIMPLEMENTED_OPCODES } }
  \cup { At(PROGRAM_COUNTER_START, << 205, 16, 1 >>) @@ At(272, << 201 >>),
         \* CALL 0x0110 and RET at 0x0110
         At(PROGRAM_COUNTER_START, << 204, 16, 1, 0 >>) @@ At(272, << 200 >>) }
         \* CALL Z,0x0110; NOP and RET Z at 0x0110

\* The cells under the stack pointer: none, or the two below 0xFFFE
Stacks == { EmptyMap, At(65532, << 0, 0 >>) }
StackPointers == { 0, 1, 65532, 65534, 65535 }

\* The registers of Emulator::new, or set_register on each
RegisterSetups ==
  { [r \in {"A", "B", "C", "D", "E", "H", "L"} |-> IF r = "B" THEN 1 ELSE 0],
    [A |-> 18, B |-> 52, C |-> 86, D |-> 120, E |-> 154, H |-> 255, L |-> 252] }
\* set_flag on Z, N, H, CY
FlagSetups == { << FALSE, FALSE, FALSE, FALSE >>, << TRUE, FALSE, TRUE, TRUE >> }

with_registers(e, values) ==
  set_register(set_register(set_register(set_register(set_register(set_register(
    set_register(e, "A", values["A"]), "B", values["B"]), "C", values["C"]),
    "D", values["D"]), "E", values["E"]), "H", values["H"]), "L", values["L"])
with_flags(e, values) ==
  set_flag(set_flag(set_flag(set_flag(e, Flag_Z, values[1]), Flag_N, values[2]),
                    Flag_H, values[3]), Flag_CY, values[4])

\* tests/common complex_emulator, but for the table
complex_emulator(memory_state, checks) ==
  add_memory_component(Emulator_new(checks), TestComponent_new(memory_state))

Init ==
  /\ \E checks \in BOOLEAN, program \in Programs, stack \in Stacks,
        sp \in StackPointers, values \in RegisterSetups, fl \in FlagSetups :
       \E e \in { set_stack_pointer(
                    with_flags(with_registers(complex_emulator(program @@ stack, checks),
                                              values), fl), sp) } : Starts(e)
  /\ HoldsTable(DefaultTable)
  /\ installed = Len(add_instructions)
  /\ InitRun

\* What a call returned, nothing when it panicked
Returned(r) == IF r.e.aborted THEN Panicked ELSE r.err

Step ==
  /\ ~aborted
  /\ steps < MaxSteps
  /\ \E r \in { process_opcode(Emulator, instructions, instruction_map) } :
       /\ Becomes(r.e)
       /\ result' = Outcome("step", program_counter, r.opcode, Returned(r), 0)
       /\ trace' = Append(trace, [before |-> Snapshot(Emulator),
                                  after |-> Snapshot(r.e), opcode |-> r.opcode,
                                  lookup |-> r.lookup, err |-> Returned(r),
                                  failure |-> r.e.failure])
  /\ steps' = steps + 1
  /\ UNCHANGED tableVars

ProcessCycles ==
  /\ ~aborted
  /\ \E e \in { process_cycles(Emulator) } : Becomes(e)
  /\ UNCHANGED << tableVars, result, steps, trace >>

Next == Step \/ ProcessCycles
Spec == Init /\ [][Next]_vars


(***************************************************************************)
(* Every opcode once: the emulator of tests/common over a program that     *)
(* starts with one (prefixed, byte) pair, the byte behind 0xCB when the    *)
(* pair is prefixed, followed by operand bytes.                            *)
(***************************************************************************)
\* The operand bytes behind the opcode: 0x0100 as nn, 0 as n and e
OperandBytes == << 0, 1 >>

OpcodePrograms ==
  { At(PROGRAM_COUNTER_START, << opcode >> \o OperandBytes) : opcode \in Byte }
  \cup { At(PROGRAM_COUNTER_START, << 203, opcode >> \o OperandBytes) : opcode \in Byte }

\* The cells an instruction may use besides its operands: none, or the two
\* on either side of the stack pointer 0xFFFC, the ones DE points at and the port
\* registers at 0xFF00 and 0xFF00 + C
OpcodeCells ==
  { EmptyMap,
    At(65530, << 0, 0, 0, 0 >>) @@ At(30874, << 0 >>)
      @@ At(65280, << 0 >>) @@ At(65366, << 0 >>) }

InitOpcode ==
  /\ \E checks \in BOOLEAN, program \in OpcodePrograms, stack \in OpcodeCells,
        values \in RegisterSetups, fl \in FlagSetups :
       \E e \in { set_stack_pointer(
                    with_flags(with_registers(complex_emulator(program @@ stack, checks),
                                              values), fl), 65532) } : Starts(e)
  /\ HoldsTable(DefaultTable)
  /\ installed = Len(add_instructions)
  /\ InitRun

SpecOpcode == InitOpcode /\ [][Next]_vars

(***************************************************************************)
(* The primitives of bits.rs on u8, called on every pair of bytes with     *)
(* and without a carry in.                                                 *)
(***************************************************************************)
\* The arguments of a call, and the call with the tuple it returned
Arguments(x, y, carry) ==
  [op |-> "arguments", a |-> x, b |-> y, carry |-> carry, returned |-> << >>]

InitBits ==
  /\ \E e \in { Emulator_new(FALSE) } : Starts(e)
  /\ HoldsTable(NewTable)
  /\ installed = 0
  /\ steps = 0
  /\ trace = << >>
  /\ \E x \in Byte, y \in Byte, carry \in BOOLEAN : result = Arguments(x, y, carry)

BitAdd ==
  /\ result.op = "arguments"
  /\ result' = [result EXCEPT !.op = "bit_add",
                              !.returned = bit_add(result.a, result.b, result.carry, 8)]
  /\ UNCHANGED << emulatorVars, tableVars, busVars, aborted, overflow_checks, countVars >>

BitSubtract ==
  /\ result.op = "arguments"
  /\ result' = [result EXCEPT !.op = "bit_subtract",
                              !.returned = bit_subtract(result.a, result.b, result.carry, 8)]
  /\ UNCHANGED << emulatorVars, tableVars, busVars, aborted, overflow_checks, countVars >>

NextBits == BitAdd \/ BitSubtract
SpecBits == InitBits /\ [][NextBits]_vars

(***************************************************************************)
(* One instruction on chosen operands: the emulator of tests/common over   *)
(* the instruction and its operand byte, with A, the other registers, the  *)
(* location HL points at, the flags and the stack pointer set to the       *)
(* values of the case, as the instruction tests set them.                  *)
(***************************************************************************)
MaxAluSteps == 2

\* Where HL points when the operand is (HL)
HlLocation == 771
AllFlags == { << z, n, h, cy >> : z \in BOOLEAN, n \in BOOLEAN, h \in BOOLEAN, cy \in BOOLEAN }
\* The bytes at the edges of the nibbles and of the byte, and two patterns
Samples == { 0, 1, 15, 16, 85, 127, 128, 170, 240, 255 }

\* bytes: the program; a: register A; v: the operand, in every other
\* register, or at HlLocation when at_hl; f: the flags
Case(bytes, a_value, v, at_hl, f, sp) ==
  [bytes |-> bytes, a |-> a_value, v |-> v, at_hl |-> at_hl, f |-> f, sp |-> sp]

case_registers(c) ==
  [r \in {"A", "B", "C", "D", "E", "H", "L"} |->
     CASE r = "A" -> c.a
       [] r = "H" /\ c.at_hl -> HlLocation \div 256
       [] r = "L" /\ c.at_hl -> HlLocation % 256
       [] OTHER -> c.v]

\* The emulator is set up for a case in the build with or without overflow
\* checks
StartsCase(checks, c) ==
  \E e \in { set_stack_pointer(
               with_flags(with_registers(
                 complex_emulator(At(PROGRAM_COUNTER_START, c.bytes)
                                    @@ At(HlLocation, << c.v >>), checks),
                 case_registers(c)), c.f), c.sp) } : Starts(e)

\* AND, XOR and OR with B, with A itself, with (HL) and with n
LogicalCases(checks) ==
  \E opcode \in { 160, 167, 166, 230, 168, 175, 174, 238, 176, 183, 182, 246 },
     a_value \in Byte, v \in { 0, 85, 240, 255 }, f \in FlagSetups :
    StartsCase(checks, Case(<< opcode, v >>, a_value, v, opcode \in { 166, 174, 182 },
                            f, 65534))

\* BIT b with every register and with (HL), behind 0xCB; A holds the
\* complement of the other registers
BitCases(checks) ==
  \E opcode \in 64..127, v \in Samples, f \in FlagSetups :
    StartsCase(checks, Case(<< 203, opcode >>, 255 - v, v, opcode % 8 = 6, f, 65534))

\* DAA on every A from every state of the flags
DaaCases(checks) ==
  \E a_value \in Byte, f \in AllFlags :
    StartsCase(checks, Case(<< 39 >>, a_value, 0, FALSE, f, 65534))

\* INC and DEC of B, of (HL) and of A on every byte, and of every register
\* and (HL) from every state of the flags
IncDecCases(checks) ==
  \/ \E opcode \in { 4, 5, 52, 53, 60, 61 }, v \in Byte, f \in FlagSetups :
       StartsCase(checks, Case(<< opcode >>, v, v, opcode \in { 52, 53 }, f, 65534))
  \/ \E r \in 0..7, k \in { 4, 5 }, v \in Samples, f \in AllFlags :
       StartsCase(checks, Case(<< 8 * r + k >>, v, v, r = 6, f, 65534))

\* RLC, RRC, RL, RR, SRA and SRL of B, of (HL) and of A behind 0xCB, and
\* RLCA, RRCA, RLA and RRA, on every byte
RotateCases(checks) ==
  \/ \E kind \in { 0, 1, 2, 3, 5, 7 }, operand \in { 0, 6, 7 }, v \in Byte,
        f \in FlagSetups :
       StartsCase(checks, Case(<< 203, 8 * kind + operand >>, v, v, operand = 6, f, 65534))
  \/ \E opcode \in { 7, 15, 23, 31 }, v \in Byte, f \in FlagSetups :
       StartsCase(checks, Case(<< opcode >>, v, v, FALSE, f, 65534))

\* ADD SP,e and LDHL SP,e with every operand byte on stack pointers at the
\* edges of the nibbles, of the bytes and of the word
StackPointerSamples == { 0, 1, 255, 4095, 65528, 65535 }
StackPointerCases(checks) ==
  \E opcode \in { 232, 248 }, v \in Byte, f \in FlagSetups, sp \in StackPointerSamples :
    StartsCase(checks, Case(<< opcode, v >>, 0, 0, FALSE, f, sp))

\* The emulator is set up over a memory with registers, flags and a stack
\* pointer
StartsOn(checks, memory_state, values, f, sp) ==
  \E e \in { set_stack_pointer(
               with_flags(with_registers(complex_emulator(memory_state, checks),
                                         values), f), sp) } : Starts(e)

\* Words at the edges of the nibbles, of the bytes and of the word
WordSamples == { 0, 1, 255, 256, 4095, 32768, 65535 }
\* ADD HL,ss for every pair code from every state of the flags: HL holds one
\* word, BC, DE and SP another
AddHlCases(checks) ==
  \E opcode \in { 9, 25, 41, 57 }, word \in WordSamples, ss \in WordSamples,
     f \in AllFlags :
    StartsOn(checks, At(PROGRAM_COUNTER_START, << opcode >>),
             [A |-> 0, B |-> ss \div 256, C |-> ss % 256, D |-> ss \div 256,
              E |-> ss % 256, H |-> word \div 256, L |-> word % 256], f, ss)

\* LD (HL+),A, LD A,(HL+), LD (HL-),A and LD A,(HL-) with HL at the ends of
\* the address space and inside it; the location holds 0x5A where the bus
\* has an entry for it, and A holds 0xA5
HlEnds == { 0, 1, HlLocation, 65534, 65535 }
HlStepCases(checks) ==
  \E opcode \in { 34, 42, 50, 58 }, word \in HlEnds, f \in FlagSetups :
    StartsOn(checks,
             At(PROGRAM_COUNTER_START, << opcode >>)
               @@ (IF word < TableLength THEN At(word, << 90 >>) ELSE EmptyMap),
             [A |-> 165, B |-> 0, C |-> 0, D |-> 0, E |-> 0,
              H |-> word \div 256, L |-> word % 256], f, 65534)

\* CPL twice on every A from every state of the flags
CplCases(checks) ==
  \E a_value \in Byte, f \in AllFlags :
    StartsCase(checks, Case(<< 47, 47 >>, a_value, 0, FALSE, f, 65534))

\* SCF and CCF from every state of the flags
CarryCases(checks) ==
  \E opcode \in { 55, 63 }, a_value \in Samples, f \in AllFlags :
    StartsCase(checks, Case(<< opcode >>, a_value, 0, FALSE, f, 65534))

InitAlu ==
  /\ \E checks \in BOOLEAN :
       \/ LogicalCases(checks)
       \/ BitCases(checks)
       \/ DaaCases(checks)
       \/ IncDecCases(checks)
       \/ RotateCases(checks)
       \/ StackPointerCases(checks)
       \/ AddHlCases(checks)
       \/ HlStepCases(checks)
       \/ CplCases(checks)
       \/ CarryCases(checks)
  /\ HoldsTable(DefaultTable)
  /\ installed = Len(add_instructions)
  /\ InitRun

AluStep == steps < MaxAluSteps /\ Step

NextAlu == AluStep
SpecAlu == InitAlu /\ [][NextAlu]_vars

(***************************************************************************)
(* OpcodePattern::opcodes on every template: eight characters, each a      *)
(* literal bit or part of a field, every field letter of opcode.rs used    *)
(* at most once, written in the groups "xx xxx xxx" of the instruction     *)
(* records.                                                                *)
(***************************************************************************)
\* The width of the u8 a template is parsed into
TemplateWidth == 8

\* The templates of n characters that use no field of the set used, a set
\* of indices into PatternOrder
RECURSIVE Templates(_, _)
Templates(n, used) ==
  IF n = 0 THEN { << >> }
  ELSE { << b >> \o t : b \in { "0", "1" }, t \in Templates(n - 1, used) }
       \cup UNION { { PatternOrder[k][1] \o t :
                        t \in Templates(n - Len(PatternOrder[k][1]), used \cup { k }) } :
                    k \in { j \in 1..Len(PatternOrder) :
                              j \notin used /\ Len(PatternOrder[j][1]) <= n } }

\* The template with a space behind its second and its fifth character
Spaced(t) ==
  SubSeq(t, 1, 2) \o << " " >> \o SubSeq(t, 3, 5) \o << " " >> \o SubSeq(t, 6, Len(t))

InitPattern ==
  /\ \E e \in { Emulator_new(FALSE) } : Starts(e)
  /\ HoldsTable(NewTable)
  /\ installed = 0
  /\ steps = 0
  /\ trace = << >>
  /\ \E t \in Templates(TemplateWidth, {}) :
       result = [op |-> "template", template |-> Spaced(t), returned |-> << >>]

Opcodes ==
  /\ result.op = "template"
  /\ result' = [result EXCEPT !.op = "opcodes", !.returned = opcodes(result.template)]
  /\ UNCHANGED << emulatorVars, tableVars, busVars, aborted, overflow_checks, countVars >>

NextPattern == Opcodes
SpecPattern == InitPattern /\ [][NextPattern]_vars
(***************************************************************************)
(* Properties.                                                             *)
(***************************************************************************)
Installed == installed = Len(add_instructions)

\* C1: once add_instructions has run, every (prefixed, byte) pair is a key
\* of the dispatch table, mapped to one instruction that was added, or is
\* one of the eleven unprefixed opcodes of UNIMPLEMENTED_OPCODES, never
\* both; 501 pairs are mapped, all 256 prefixed ones among them, and no
\* add_instruction found a pair claimed before (it panics when it does).
C1_TableCoversAllButIllegal ==
  /\ ~aborted
  /\ Installed =>
       /\ \A p \in BOOLEAN, b \in Byte :
            (<< p, b >> \in DOMAIN instruction_map)
              <=> ~(p = FALSE /\ b \in UNIMPLEMENTED_OPCODES)
       /\ \A k \in DOMAIN instruction_map :
            instruction_map[k] \in 0..(Len(instructions) - 1)
       /\ Cardinality(DOMAIN instruction_map) = 501
       /\ Cardinality({k \in DOMAIN instruction_map : k[1]}) = 256
       /\ Cardinality(UNIMPLEMENTED_OPCODES) = 11
       /\ DOMAIN name_map = DOMAIN instruction_map
       /\ HoldsTable(DefaultTable) /\ ~DefaultTable.panic

\* The whole default set installed: a prefixed pair mapped, an illegal one
\* not, and HALT found under its opcode
C1_TableInstalled ==
  /\ Installed
  /\ ~aborted
  /\ << TRUE, 0 >> \in DOMAIN instruction_map
  /\ << FALSE, 211 >> \notin DOMAIN instruction_map
  /\ instructions[instruction_map[<< FALSE, 118 >>] + 1] = "halt"

\* The index of the component registered last among those whose mapped
\* locations hold the address; 0, the catch-all, when none does
MappedBy(location) ==
  { i \in 1..Len(components) : location \in mapped_locations(components[i]) }
LatestMapping(location) ==
  IF MappedBy(location) \ {1} = {} THEN 0
  ELSE (CHOOSE i \in MappedBy(location) : \A j \in MappedBy(location) : j <= i) - 1

\* C7: after any sequence of registrations, a read or a write at an address
\* is delegated to the component registered last among those whose mapped
\* locations hold the address, and to the catch-all when no later component
\* maps it.
C7_LatestRegistrationServes ==
  result.op \in {"read", "write"} =>
    /\ ~aborted
    /\ result.delegate = LatestMapping(result.location)
\* A read that went to a component registered over another one
C7_ShadowedRead ==
  /\ result.op = "read"
  /\ ~aborted
  /\ Cardinality(MappedBy(result.location)) >= 3
  /\ result.delegate = LatestMapping(result.location)

\* C8: a read or a write at an address that only the catch-all serves, any
\* address of 0x0000..0xFFFF, returns the error that carries the address
\* (and the value written), and the program goes on.
C8_CatchAllReturnsError ==
  (result.op \in {"read", "write"} /\ LatestMapping(result.location) = 0) =>
    /\ ~aborted
    /\ result.err.location = result.location
    /\ result.op = "read" => result.err.kind = "ReadError"
    /\ result.op = "write" =>
         result.err.kind = "WriteError" /\ result.err.value = result.value

\* C9: in the default emulator a read at 0xE000 + k returns what a read at
\* 0xC000 + k returns, for k in 0..0x1DFF.
DefaultComponents ==
  /\ Len(components) = 6
  /\ [i \in 1..6 |-> components[i].kind]
       = << "UnimplementedMemory", "SerialTransferComponent", "SoundComponent",
            "StackComponent", "UnusableRamComponent", "WorkRamComponent" >>
C9_EchoMirrorsWorkRam ==
  (DefaultComponents /\ ~aborted) =>
    \A k \in {0, 7679} :
      memory_location(Emulator, 57344 + k) = memory_location(Emulator, 49152 + k)


(***************************************************************************)
(* Properties of single steps and of pairs of consecutive steps, read off  *)
(* the history of steps.                                                   *)
(***************************************************************************)
\* The step before last and the last step, when there are that many
Last == trace[Len(trace)]
Previous == trace[Len(trace) - 1]
\* The step fetched the byte opcode and looked it up in the unprefixed table
Fetched(t, opcode) == t.opcode = opcode /\ ~t.lookup
\* Both bytes a push at stack pointer sp writes are held by a component
\* registered over the catch-all
StackWritable(sp) ==
  /\ sp >= 2
  /\ LatestMapping(sp - 1) /= 0
  /\ LatestMapping(sp - 2) /= 0
ByteAt(location) == memory_location(Emulator, location).value

\* C2: the prefix latch is true after a step exactly when that step fetched
\* 0xCB while the latch was false; a step that starts with the latch true
\* looks its byte up in the CB table and ends with the latch false, whether
\* it succeeds or returns an error.
C2_LatchLastsOneStep ==
  \A i \in 1..Len(trace) :
    /\ trace[i].after.prefixed <=>
         (trace[i].opcode = 203 /\ ~trace[i].before.prefixed)
    /\ trace[i].before.prefixed =>
         (trace[i].lookup /\ ~trace[i].after.prefixed)
\* A step that started with the latch true and whose fetch returned an error
C2_FetchFailsUnderLatch ==
  /\ Len(trace) >= 2
  /\ ~aborted
  /\ Previous.opcode = 203 /\ ~Previous.before.prefixed
  /\ Last.before.prefixed
  /\ Last.opcode = -1
  /\ Last.err.kind = "ReadError"

\* C3: a CALL nn at address P with the stack in writable memory leaves SP two
\* lower and the low and high byte of P+3 at SP and SP+1; a RET at nn taken
\* next ends with PC = P+3 and SP as it was before the CALL.
C3_CallThenRet ==
  /\ (/\ Len(trace) >= 1
      /\ Fetched(Last, 205)
      /\ StackWritable(Last.before.stack_pointer))
     => /\ ~aborted
        /\ Last.err = Ok
        /\ stack_pointer = Last.before.stack_pointer - 2
        /\ ByteAt(stack_pointer)
             = to_le_bytes((Last.before.program_counter + 3) % 65536)[1]
        /\ ByteAt(stack_pointer + 1)
             = to_le_bytes((Last.before.program_counter + 3) % 65536)[2]
  /\ (/\ Len(trace) >= 2
      /\ Fetched(Previous, 205)
      /\ StackWritable(Previous.before.stack_pointer)
      /\ Fetched(Last, 201))
     => /\ ~aborted
        /\ Last.err = Ok
        /\ program_counter = (Previous.before.program_counter + 3) % 65536
        /\ stack_pointer = Previous.before.stack_pointer
\* A CALL and the RET at its target both taken, on a writable stack
C3_CallAndRetTaken ==
  /\ Len(trace) >= 2
  /\ ~aborted
  /\ Fetched(Previous, 205)
  /\ StackWritable(Previous.before.stack_pointer)
  /\ Previous.err = Ok
  /\ Fetched(Last, 201)
  /\ Last.err = Ok
  /\ Last.before.program_counter = 272

\* C4: PUSH qq followed by POP qq on writable stack memory restores SP and
\* the pair, for qq in BC, DE, HL, AF; for AF, A is unchanged and F keeps its
\* upper four bits with the lower four zero.
PushOpcode(q) == 197 + 16 * q
PopOpcode(q) == 193 + 16 * q
PushedThenPopped(q) ==
  /\ Len(trace) >= 2
  /\ Fetched(Previous, PushOpcode(q))
  /\ StackWritable(Previous.before.stack_pointer)
  /\ Fetched(Last, PopOpcode(q))
C4_PushPopRestores ==
  \A q \in 0..3 :
    PushedThenPopped(q) =>
      /\ ~aborted
      /\ Previous.err = Ok /\ Last.err = Ok
      /\ stack_pointer = Previous.before.stack_pointer
      /\ q /= 3 => registers = Previous.before.registers
      /\ q = 3 => /\ registers["A"] = Previous.before.registers["A"]
                  /\ flags = (Previous.before.flags \div 16) * 16
\* PUSH AF then POP AF, both returning Ok, with A and F different before
C4_AfPushedThenPopped ==
  /\ PushedThenPopped(3)
  /\ ~aborted
  /\ Last.err = Ok
  /\ Previous.before.registers["A"] /= Previous.before.flags

\* C5: in every state reached by steps from construction, the AF value read
\* through the register-pair view has bits 3..0 zero.
C5_AfLowNibbleZero == register_pair(Emulator, "Af") % 16 = 0
\* A state after a successful step in which F holds a non-zero low nibble
C5_LowNibbleSet ==
  /\ Len(trace) >= 1
  /\ ~aborted
  /\ Last.err = Ok
  /\ flags % 16 /= 0

\* C6: in LD ss,nn (0x31), INC ss (0x33), DEC ss (0x3B) and ADD HL,ss (0x39)
\* the pair code 11 is the stack pointer: the step reads or writes SP and
\* leaves A alone, and F too except for the flags ADD HL,ss computes.
C6_Code11IsStackPointer ==
  \A i \in 1..Len(trace) :
    LET t == trace[i]
        nn == from_le_bytes(ByteAt((t.before.program_counter + 1) % 65536),
                            ByteAt((t.before.program_counter + 2) % 65536))
        HL(s) == from_le_bytes(s.registers["L"], s.registers["H"])
    IN /\ Fetched(t, 49) =>
            /\ t.err = Ok
            /\ t.after.stack_pointer = nn
            /\ t.after.registers = t.before.registers
            /\ t.after.flags = t.before.flags
       /\ Fetched(t, 51) =>
            /\ t.err = Ok
            /\ t.after.stack_pointer = (t.before.stack_pointer + 1) % 65536
            /\ t.after.registers = t.before.registers
            /\ t.after.flags = t.before.flags
       /\ Fetched(t, 59) =>
            /\ t.err = Ok
            /\ t.after.stack_pointer = (t.before.stack_pointer + 65535) % 65536
            /\ t.after.registers = t.before.registers
            /\ t.after.flags = t.before.flags
       /\ Fetched(t, 57) =>
            /\ t.err = Ok
            /\ HL(t.after) = (HL(t.before) + t.before.stack_pointer) % 65536
            /\ t.after.stack_pointer = t.before.stack_pointer
            /\ t.after.registers["A"] = t.before.registers["A"]
\* LD ss,nn with code 11 has run and returned Ok
C6_LoadCode11Ran ==
  /\ Len(trace) >= 1
  /\ ~aborted
  /\ Fetched(Last, 49)
  /\ Last.err = Ok

\* C10: since the last process_cycles, cycles_processed is the number of
\* Emulator::read calls plus Emulator::write calls plus set_program_counter
\* calls, the calls that returned an error among them; nothing else moves it.
C10_CyclesCountAccesses ==
  cycles_processed = bus_reads + bus_writes + pc_sets
\* A step that wrote, set the program counter, and whose accesses were all
\* counted, followed by a fetch that returned an error and was counted
C10_FailedAccessCounted ==
  /\ Len(trace) >= 2
  /\ ~aborted
  /\ Previous.err = Ok
  /\ Last.opcode = -1
  /\ Last.err.kind = "ReadError"
  /\ bus_writes > 0
  /\ pc_sets > 0
  /\ bus_reads > 1
  /\ cycles_processed = Last.before.cycles_processed + 1

(***************************************************************************)
(* Jumps.                                                                  *)
(***************************************************************************)
\* The condition code cc of bits 4..3 of the opcode, on the flag byte
ConditionCode(opcode) == (opcode \div 8) % 4
ConditionHolds(cc, f) ==
  CASE cc = 0 -> (f \div 128) % 2 = 0
    [] cc = 1 -> (f \div 128) % 2 = 1
    [] cc = 2 -> (f \div 16) % 2 = 0
    [] cc = 3 -> (f \div 16) % 2 = 1
Untaken(t) == ~ConditionHolds(ConditionCode(t.opcode), t.before.flags)
Cycles(t) == t.after.cycles_processed - t.before.cycles_processed
Reads(t) == t.after.bus_reads - t.before.bus_reads
JR_cc == {32, 40, 48, 56}
JP_cc == {194, 202, 210, 218}

C12_TakenJumpCostsFour ==
  \A i \in 1..Len(trace) :
    /\ Fetched(trace[i], 195) => trace[i].err = Ok /\ Cycles(trace[i]) = 4
    /\ (\E op \in JP_cc : Fetched(trace[i], op)) /\ ~Untaken(trace[i]) =>
         trace[i].err = Ok /\ Cycles(trace[i]) = 4
    /\ (\E op \in JP_cc : Fetched(trace[i], op)) /\ Untaken(trace[i]) =>
         trace[i].err = Ok /\ Cycles(trace[i]) = 3
\* JP nn has run, returned Ok and jumped
C12_JumpTaken ==
  /\ Len(trace) >= 1
  /\ ~aborted
  /\ Fetched(Last, 195)
  /\ Last.err = Ok
  /\ jumped
  /\ program_counter = 256

\* C13: JR e at P, for e in -128..127, returns Ok and sets PC to
\* (P + 2 + e) mod 65536; e = -2 brings PC back to P.
Signed(byte) == IF byte >= 128 THEN byte - 256 ELSE byte
C13_RelativeJumpWraps ==
  \A i \in 1..Len(trace) :
    Fetched(trace[i], 24) =>
      /\ trace[i].err = Ok
      /\ trace[i].after.program_counter
           = (trace[i].before.program_counter + 2
                + Signed(ByteAt((trace[i].before.program_counter + 1) % 65536))
                + 65536) % 65536
\* JR -128 has run
C13_JumpBack128 ==
  /\ Len(trace) >= 1
  /\ Fetched(Last, 24)
  /\ ByteAt((Last.before.program_counter + 1) % 65536) = 128

(***************************************************************************)
(* Modes, the interrupt latch and errors.                                  *)
(***************************************************************************)
\* What a step that fetches and decodes nothing leaves alone
Untouched(t) ==
  /\ t.after.program_counter = t.before.program_counter
  /\ t.after.stack_pointer = t.before.stack_pointer
  /\ t.after.registers = t.before.registers
  /\ t.after.flags = t.before.flags
  /\ t.after.interrupt_master_enable = t.before.interrupt_master_enable
  /\ t.after.components = t.before.components
Writes(t) == t.after.bus_writes - t.before.bus_writes

\* C14: HALT leaves the mode Halt, and a step taken in mode Halt adds one
\* cycle and fetches and decodes nothing: PC, SP, the registers, the flags,
\* IME and memory are as before it.
C14_HaltedStepOnlyTicks ==
  \A i \in 1..Len(trace) :
    /\ Fetched(trace[i], 118) /\ trace[i].before.state = "Run" =>
         trace[i].err = Ok /\ trace[i].after.state = "Halt"
    /\ trace[i].before.state = "Halt" =>
         /\ Cycles(trace[i]) = 1
         /\ Reads(trace[i]) = 0
         /\ Writes(trace[i]) = 0
         /\ Untouched(trace[i])
\* HALT has run and a step was taken after it
C14_SteppedWhileHalted ==
  /\ Len(trace) >= 2
  /\ ~aborted
  /\ Fetched(Previous, 118)
  /\ Previous.after.state = "Halt"
  /\ Last.before.state = "Halt"
  /\ Last.err = Ok

\* C15: STOP leaves the mode Stop, and a step taken in mode Stop changes
\* nothing: no bus access, no cycle, and PC, SP, the registers, the flags
\* and memory as before it.
C15_StoppedStepIsNoOp ==
  \A i \in 1..Len(trace) :
    /\ Fetched(trace[i], 16) /\ trace[i].before.state = "Run" =>
         trace[i].err = Ok /\ trace[i].after.state = "Stop"
    /\ trace[i].before.state = "Stop" =>
         /\ Cycles(trace[i]) = 0
         /\ Reads(trace[i]) = 0
         /\ Writes(trace[i]) = 0
         /\ Untouched(trace[i])
\* STOP has run and a step was taken after it
C15_SteppedWhileStopped ==
  /\ Len(trace) >= 2
  /\ ~aborted
  /\ Fetched(Previous, 16)
  /\ Previous.after.state = "Stop"
  /\ Last.before.state = "Stop"
  /\ Last.err = Ok

\* C16: IME is false at construction, and after any steps it is true exactly
\* when the last of the EI, RETI and DI run so far was an EI or a RETI; EI
\* acts in its own step and no other instruction moves IME.
ImeSteps(n) == { j \in 1..n : \E op \in {251, 217, 243} : Fetched(trace[j], op) }
ImeExpected(n) ==
  /\ ImeSteps(n) /= {}
  /\ trace[CHOOSE j \in ImeSteps(n) : \A k \in ImeSteps(n) : k <= j].opcode
       \in {251, 217}
C16_ImeFollowsLastEiDi ==
  /\ Len(trace) = 0 => ~interrupt_master_enable
  /\ interrupt_master_enable <=> ImeExpected(Len(trace))
  /\ \A i \in 1..Len(trace) :
       /\ trace[i].after.interrupt_master_enable <=> ImeExpected(i)
       /\ trace[i].before.interrupt_master_enable <=> ImeExpected(i - 1)
\* EI has set IME in its step and the DI after it has cleared it
C16_EiThenDi ==
  /\ Len(trace) >= 2
  /\ ~aborted
  /\ Fetched(Previous, 251)
  /\ ~Previous.before.interrupt_master_enable
  /\ Previous.after.interrupt_master_enable
  /\ Fetched(Last, 243)
  /\ ~interrupt_master_enable

\* C17: a step whose byte has no entry in the table the prefix latch selects
\* returns the illegal-opcode error that carries the latch value of the
\* lookup and the byte, and runs no body; so for each of the eleven
\* unprefixed opcodes of UNIMPLEMENTED_OPCODES.
NoEntry(t) ==
  /\ t.opcode \in Byte
  /\ << t.lookup, t.opcode >> \notin DOMAIN instruction_map
C17_IllegalOpcodeError ==
  \A i \in 1..Len(trace) :
    /\ NoEntry(trace[i]) =>
         /\ trace[i].err.kind = "Unimplemented"
         /\ trace[i].err.prefixed = trace[i].lookup
         /\ trace[i].err.value = trace[i].opcode
         /\ trace[i].after.program_counter
              = (trace[i].before.program_counter + 1) % 65536
         /\ Reads(trace[i]) = 1
         /\ Writes(trace[i]) = 0
         /\ trace[i].after.stack_pointer = trace[i].before.stack_pointer
         /\ trace[i].after.registers = trace[i].before.registers
         /\ trace[i].after.flags = trace[i].before.flags
         /\ trace[i].after.components = trace[i].before.components
    /\ (trace[i].opcode \in UNIMPLEMENTED_OPCODES /\ ~trace[i].lookup) =>
         NoEntry(trace[i])
\* The illegal opcode 0xFD was fetched with the latch false
C17_IllegalFetched ==
  /\ Len(trace) >= 1
  /\ ~aborted
  /\ Fetched(Last, 253)
  /\ Last.err.kind = "Unimplemented"

\* C18: when a bus access inside a step returns an error, the step returns
\* that error, makes no bus access after it and changes PC, SP, the
\* registers, the flags and IME no further, and what was changed before the
\* access stays changed.
C18_FirstErrorEndsStep ==
  \A i \in 1..Len(trace) :
    /\ trace[i].failure /= << >> =>
         /\ trace[i].err = trace[i].failure[2]
         /\ trace[i].after.bus_reads = trace[i].failure[1].bus_reads
         /\ trace[i].after.bus_writes = trace[i].failure[1].bus_writes
         /\ trace[i].after.program_counter = trace[i].failure[1].program_counter
         /\ trace[i].after.stack_pointer = trace[i].failure[1].stack_pointer
         /\ trace[i].after.registers = trace[i].failure[1].registers
         /\ trace[i].after.flags = trace[i].failure[1].flags
         /\ trace[i].after.interrupt_master_enable
              = trace[i].failure[1].interrupt_master_enable
         /\ trace[i].after.components = trace[i].failure[1].components
    /\ trace[i].err.kind \in {"ReadError", "WriteError"} => trace[i].failure /= << >>
\* LD A,n whose operand read returned an error
C18_OperandReadFailed ==
  /\ Len(trace) >= 1
  /\ ~aborted
  /\ Fetched(Last, 62)
  /\ Last.err.kind = "ReadError"
  /\ Last.failure /= << >>

\* C19: stack addresses wrap modulo 65536 and the arithmetic never ends the
\* program: PUSH, CALL and RST with SP in {0, 1} write at SP-1 and SP-2 and
\* leave SP-2, and POP and RET with SP in {0xFFFE, 0xFFFF} read at SP and
\* SP+1 and leave SP+2, all modulo 65536.
Pushes == {197, 213, 229, 245, 205, 199}
Pops == {193, 209, 225, 241, 201}
Wrap(n) == (n + 65536) % 65536
C19_StackArithmeticWraps ==
  \A i \in 1..Len(trace) :
    LET t == trace[i]
        sp == t.before.stack_pointer
    IN /\ ((\E op \in Pushes : Fetched(t, op)) /\ sp \in {0, 1}) =>
            /\ t.err.kind \in {"Ok", "WriteError", "ReadError"}
            /\ t.err.kind = "WriteError" =>
                 t.err.location \in {Wrap(sp - 1), Wrap(sp - 2)}
            /\ t.err.kind = "Ok" =>
                 Writes(t) = 2 /\ t.after.stack_pointer = Wrap(sp - 2)
       /\ ((\E op \in Pops : Fetched(t, op)) /\ sp \in {65534, 65535}) =>
            /\ t.err.kind \in {"Ok", "ReadError"}
            /\ t.err.kind = "ReadError" =>
                 t.err.location \in {sp, Wrap(sp + 1 - 65536)}
            /\ t.err.kind = "Ok" =>
                 Reads(t) = 3 /\ t.after.stack_pointer = Wrap(sp + 2 - 65536)
\* PUSH BC has been fetched with SP = 0, as Emulator::new leaves it
C19_PushAtZero ==
  /\ Len(trace) >= 1
  /\ Fetched(Last, 197)
  /\ Last.before.stack_pointer = 0

\* The error kinds of a field of the opcode byte that is no valid code
ParseErrors == { "ConditionParse", "PageParse", "RegisterParse", "RegisterPairParse" }
Mapped(t) == t.opcode # -1 /\ << t.lookup, t.opcode >> \in DOMAIN instruction_map

\* C20: for every (prefixed, byte) pair the default table maps and every
\* processor state the step starts in, the instruction body the pair is
\* dispatched to never returns a register, register-pair, condition or
\* page parse error: every field it extracts from the byte is a valid code.
C20_NoParseError ==
  \A i \in 1..Len(trace) :
    Mapped(trace[i]) => trace[i].err.kind \notin ParseErrors

\* BIT 7,A fetched behind 0xCB and run to its end: a prefixed pair whose
\* body extracts the register code 7 and the bit number 7
C20_PrefixedBodyRan ==
  /\ Len(trace) = 2
  /\ ~aborted
  /\ Mapped(Last) /\ Last.lookup /\ Last.opcode = 127
  /\ Last.err = Ok

CarryValue(carry) == IF carry THEN 1 ELSE 0

\* C21: for all bytes a and b and either carry in, bit_add returns the sum
\* a + b + carry in modulo 256, the carry exactly when the sum is above
\* 0xFF, and the half carry exactly when the sum of the two low nibbles and
\* the carry in is above 0x0F.
C21_AddPrimitive ==
  result.op = "bit_add" =>
    \E sum \in { result.a + result.b + CarryValue(result.carry) } :
      result.returned =
        << sum % 256, sum > 255,
           (result.a % 16) + (result.b % 16) + CarryValue(result.carry) > 15 >>

\* 0xFF + 0x00 with the carry in: the carry in alone makes both carries
C21_CarryInOverflows ==
  /\ result.op = "bit_add"
  /\ result.a = 255 /\ result.b = 0 /\ result.carry
  /\ result.returned = << 0, TRUE, TRUE >>

\* C22: for all bytes a and b and either borrow in, bit_subtract returns
\* a - b - borrow in modulo 256, the borrow exactly when that difference is
\* negative, and the half borrow exactly when the low nibble of a is below
\* the low nibble of b plus the borrow in, the sum not being reduced.
C22_SubtractPrimitive ==
  result.op = "bit_subtract" =>
    \E dif \in { result.a - result.b - CarryValue(result.carry) } :
      result.returned =
        << dif % 256, dif < 0,
           (result.a % 16) < (result.b % 16) + CarryValue(result.carry) >>

\* 0x00 - 0x0F with the borrow in: the low nibble of b and the borrow in
\* make sixteen
C22_NibbleAndBorrowMakeSixteen ==
  /\ result.op = "bit_subtract"
  /\ result.a = 0 /\ result.b = 15 /\ result.carry

(***************************************************************************)
(* The arithmetic and logical instructions.                                *)
(***************************************************************************)
\* The operand code of bits 2..0 of an opcode: 6 is (HL), the others name a
\* register
Operand(opcode) == opcode % 8
\* ADD, ADC, SUB, SBC, AND, XOR, OR and CP with a register or (HL), and
\* with n; INC r and DEC r
AluBlock == 128..191
AluImmediate == { 198, 206, 214, 222, 230, 238, 246, 254 }
IncDecRegister == { 8 * r + k : r \in (0..7) \ {6}, k \in { 4, 5 } }
\* The prefixed BIT, RES and SET blocks
BitBlock == 64..127
ResBlock == 128..191
SetBlock == 192..255
Prefixed(t, opcode) == t.opcode = opcode /\ t.lookup

\* The cycles of a step that started with the counter at zero and ended Ok
Costs(t, n) ==
  t.before.cycles_processed = 0 /\ t.err = Ok => t.after.cycles_processed = n

Memory(s, location) ==
  MemoryMapping_read([components |-> s.components, memory_mapping |-> memory_mapping,
                      panic |-> FALSE], location).value
HlOf(s) == 256 * s.registers["H"] + s.registers["L"]
\* The operand bits 2..0 of an opcode name: B, C, D, E, H, L, (HL), A
OperandValue(s, code) ==
  CASE code = 0 -> s.registers["B"] [] code = 1 -> s.registers["C"]
    [] code = 2 -> s.registers["D"] [] code = 3 -> s.registers["E"]
    [] code = 4 -> s.registers["H"] [] code = 5 -> s.registers["L"]
    [] code = 6 -> Memory(s, HlOf(s)) [] code = 7 -> s.registers["A"]
\* The operand of an ALU instruction: n behind the opcode for 0xC6..0xFE
AluSource(t) ==
  IF t.opcode >= 192 THEN Memory(t.before, (t.before.program_counter + 1) % 65536)
  ELSE OperandValue(t.before, Operand(t.opcode))
FlagIn(s, f) == BitAnd(s.flags, f) > 0
\* The flags Z, N, H, CY of a snapshot
FlagsOf(s) == << FlagIn(s, Flag_Z), FlagIn(s, Flag_N), FlagIn(s, Flag_H), FlagIn(s, Flag_CY) >>
Ran(t) == ~t.lookup /\ t.err = Ok
RanPrefixed(t) == t.lookup /\ t.err = Ok

AndOpcodes == (160..167) \cup { 230 }
XorOpcodes == (168..175) \cup { 238 }
OrOpcodes == (176..183) \cup { 246 }

\* C24: for every A and every operand (a register, n or (HL)), AND leaves
\* A = A & src with H=1, N=0, CY=0, and OR and XOR leave A = A | src and
\* A ^ src with H=0, N=0, CY=0; in all three Z is set exactly when the new A
\* is zero.
C24_LogicalResultAndFlags ==
  \A i \in 1..Len(trace) :
    Ran(trace[i]) /\ trace[i].opcode \in AndOpcodes \cup XorOpcodes \cup OrOpcodes =>
      \E value \in { CASE trace[i].opcode \in AndOpcodes ->
                            BitAnd(trace[i].before.registers["A"], AluSource(trace[i]))
                       [] trace[i].opcode \in XorOpcodes ->
                            BitXor(trace[i].before.registers["A"], AluSource(trace[i]))
                       [] trace[i].opcode \in OrOpcodes ->
                            BitOr(trace[i].before.registers["A"], AluSource(trace[i])) } :
        /\ trace[i].after.registers["A"] = value
        /\ FlagsOf(trace[i].after)
             = << value = 0, FALSE, trace[i].opcode \in AndOpcodes, FALSE >>

\* XOR (HL) of 0xAA in A with 0x55 at HL, started with all of Z, H and CY set
C24_XorHlLocationRan ==
  /\ Len(trace) = 1
  /\ Ran(Last) /\ Last.opcode = 174
  /\ Last.before.registers["A"] = 170 /\ Memory(Last.before, HlOf(Last.before)) = 85
  /\ FlagsOf(Last.before) = << TRUE, FALSE, TRUE, TRUE >>
  /\ Last.after.registers["A"] = 255
  /\ FlagsOf(Last.after) = << FALSE, FALSE, FALSE, FALSE >>

\* Bit b of a byte
BitOf(value, b) == (value \div Pow2(b)) % 2
\* The bit index of bits 5..3 of a prefixed opcode
BitIndex(opcode) == (opcode \div 8) % 8

\* C25: for every bit index b in 0..7 and every operand (a register or
\* (HL)), BIT b sets Z to the complement of bit b of the operand, sets H=1
\* and N=0, and leaves CY, the operand, every register and memory unchanged.
C25_BitTest ==
  \A i \in 1..Len(trace) :
    RanPrefixed(trace[i]) /\ trace[i].opcode \in BitBlock =>
      /\ FlagsOf(trace[i].after)
           = << BitOf(OperandValue(trace[i].before, Operand(trace[i].opcode)),
                      BitIndex(trace[i].opcode)) = 0,
                FALSE, TRUE, FlagIn(trace[i].before, Flag_CY) >>
      /\ trace[i].after.registers = trace[i].before.registers
      /\ trace[i].after.components = trace[i].before.components
      /\ OperandValue(trace[i].after, Operand(trace[i].opcode))
           = OperandValue(trace[i].before, Operand(trace[i].opcode))

\* BIT 7,(HL) on 0x80 with CY set and Z set before: Z is cleared, CY kept
C25_BitSevenOfHlLocation ==
  /\ Len(trace) = 2
  /\ RanPrefixed(Last) /\ Last.opcode = 126
  /\ Memory(Last.before, HlOf(Last.before)) = 128
  /\ FlagsOf(Last.before) = << TRUE, FALSE, TRUE, TRUE >>
  /\ FlagsOf(Last.after) = << FALSE, FALSE, TRUE, TRUE >>

\* The decimal adjustment of the reference: << A, CY >> from A, N, H, CY
DaaReference(value, n, h, cy) ==
  IF n
  THEN << (value - (IF h THEN 6 ELSE 0) - (IF cy THEN 96 ELSE 0)) % 256, cy >>
  ELSE << (value + (IF value % 16 > 9 \/ h THEN 6 ELSE 0)
                 + (IF value > 153 \/ cy THEN 96 ELSE 0)) % 256,
          value > 153 \/ cy >>

\* C26: for every A, N, H and CY, DAA produces the result of the standard
\* reference: with N=0 it adds 0x06 when (A & 0x0F) > 9 or H=1, and adds
\* 0x60 and sets CY when A > 0x99 or CY=1; with N=1 it subtracts 0x06 when
\* H=1 and 0x60 when CY=1 and keeps CY; afterwards H=0, Z is set exactly
\* when A is zero, and N is unchanged.
C26_DecimalAdjust ==
  \A i \in 1..Len(trace) :
    Ran(trace[i]) /\ trace[i].opcode = 39 =>
      \E r \in { DaaReference(trace[i].before.registers["A"],
                              FlagIn(trace[i].before, Flag_N),
                              FlagIn(trace[i].before, Flag_H),
                              FlagIn(trace[i].before, Flag_CY)) } :
        /\ trace[i].after.registers["A"] = r[1]
        /\ FlagsOf(trace[i].after)
             = << r[1] = 0, FlagIn(trace[i].before, Flag_N), FALSE, r[2] >>

\* DAA has run on A = 0x9A with N, H and CY clear
C26_AdjustedNinetyA ==
  /\ Len(trace) = 1
  /\ Ran(Last) /\ Last.opcode = 39
  /\ Last.before.registers["A"] = 154
  /\ FlagsOf(Last.before) = << FALSE, FALSE, FALSE, FALSE >>

\* INC r, INC (HL), DEC r and DEC (HL): 00 rrr 100 and 00 rrr 101
IncOpcodes == { 8 * r + 4 : r \in 0..7 }
DecOpcodes == { 8 * r + 5 : r \in 0..7 }
\* The operand bits 5..3 of the opcode name
Target(opcode) == (opcode \div 8) % 8
\* Z, N and H after INC and DEC of a byte
IncFlags(value) == << (value + 1) % 256 = 0, FALSE, value % 16 = 15 >>
DecFlags(value) == << (value - 1) % 256 = 0, TRUE, value % 16 = 0 >>

\* C27: for every operand value and every prior flag state, INC r, DEC r,
\* INC (HL) and DEC (HL) leave CY exactly as it was before the instruction,
\* while updating Z, N and H (INC of 0xFF gives 0x00 with Z=1, H=1, N=0 and
\* DEC of 0x00 gives 0xFF with Z=0, H=1, N=1).
C27_IncDecKeepCarry ==
  \A i \in 1..Len(trace) :
    Ran(trace[i]) /\ trace[i].opcode \in IncOpcodes \cup DecOpcodes =>
      \E value \in { OperandValue(trace[i].before, Target(trace[i].opcode)) } :
        /\ OperandValue(trace[i].after, Target(trace[i].opcode))
             = IF trace[i].opcode \in IncOpcodes THEN (value + 1) % 256
                                                 ELSE (value - 1) % 256
        /\ FlagsOf(trace[i].after)
             = (IF trace[i].opcode \in IncOpcodes THEN IncFlags(value) ELSE DecFlags(value))
                 \o << FlagIn(trace[i].before, Flag_CY) >>

\* INC B has run on 0x01 with CY set
C27_IncrementedUnderCarry ==
  /\ Len(trace) = 1
  /\ Ran(Last) /\ Last.opcode = 4
  /\ Last.before.registers["B"] = 1
  /\ FlagIn(Last.before, Flag_CY)
  /\ Last.after.registers["B"] = 2

\* The prefixed SRA and SRL blocks
SraBlock == 40..47
SrlBlock == 56..63

\* C28: for every byte v, SRA (CB 0x28..0x2F) yields v >> 1 with bit 7 kept
\* equal to bit 7 of v, and SRL (CB 0x38..0x3F) yields v >> 1 with bit 7
\* zero; in both, CY becomes bit 0 of v, H=0, N=0 and Z is set exactly when
\* the result is zero.
C28_ShiftRight ==
  \A i \in 1..Len(trace) :
    RanPrefixed(trace[i]) /\ trace[i].opcode \in SraBlock \cup SrlBlock =>
      \E value \in { OperandValue(trace[i].before, Operand(trace[i].opcode)) } :
        \E shifted \in { (value \div 2)
                           + (IF trace[i].opcode \in SraBlock /\ value >= 128
                              THEN 128 ELSE 0) } :
          /\ OperandValue(trace[i].after, Operand(trace[i].opcode)) = shifted
          /\ FlagsOf(trace[i].after) = << shifted = 0, FALSE, FALSE, value % 2 = 1 >>

\* SRA B has run on 0x81
C28_ShiftedEightyOne ==
  /\ Len(trace) = 2
  /\ RanPrefixed(Last) /\ Last.opcode = 40
  /\ Last.before.registers["B"] = 129

\* The rotations: RLC, RRC, RL and RR behind 0xCB, and RLCA, RRCA, RLA, RRA
RotateBlock == 0..31
RotateA == { 7, 15, 23, 31 }
\* The kind of bits 4..3: 0 RLC, 1 RRC, 2 RL, 3 RR
Rotated(kind, value, cy) ==
  CASE kind = 0 -> << ((2 * value) % 256) + (value \div 128), value >= 128 >>
    [] kind = 1 -> << (value \div 2) + 128 * (value % 2), value % 2 = 1 >>
    [] kind = 2 -> << ((2 * value) % 256) + CarryValue(cy), value >= 128 >>
    [] kind = 3 -> << (value \div 2) + 128 * CarryValue(cy), value % 2 = 1 >>

AddSpOpcodes == { 232, 248 }

\* C30: for every SP and every signed offset e, ADD SP,e and LDHL SP,e
\* finish with Z=0 and N=0, including when the 16-bit result is zero
\* (SP=0xFFF8, e=0x08 gives 0x0000 with Z=0).
C30_AddSpClearsZeroAndN ==
  \A i \in 1..Len(trace) :
    Ran(trace[i]) /\ trace[i].opcode \in AddSpOpcodes =>
      ~FlagIn(trace[i].after, Flag_Z) /\ ~FlagIn(trace[i].after, Flag_N)

\* ADD SP,8 has run on SP = 0xFFF8 and left SP = 0
C30_AddedUpToZero ==
  /\ Len(trace) = 1
  /\ Ran(Last) /\ Last.opcode = 232
  /\ Last.before.stack_pointer = 65528
  /\ Memory(Last.before, (Last.before.program_counter + 1) % 65536) = 8
  /\ Last.after.stack_pointer = 0

(***************************************************************************)
(* The 16-bit additions.                                                   *)
(***************************************************************************)
\* The byte behind the opcode of a step
ImmediateOf(t) == Memory(t.before, (t.before.program_counter + 1) % 65536)

\* C31: for every SP and every offset e in 0..127, ADD SP,e and LDHL SP,e
\* set CY to the carry out of bit 7 and H to the carry out of bit 3 of the
\* 8-bit sum (SP & 0xFF) + e, whatever the high byte of SP is.
C31_LowByteLaneFlags ==
  \A i \in 1..Len(trace) :
    Ran(trace[i]) /\ trace[i].opcode \in AddSpOpcodes /\ ImmediateOf(trace[i]) <= 127 =>
      /\ FlagIn(trace[i].after, Flag_CY)
           = ((trace[i].before.stack_pointer % 256) + ImmediateOf(trace[i]) > 255)
      /\ FlagIn(trace[i].after, Flag_H)
           = ((trace[i].before.stack_pointer % 16) + (ImmediateOf(trace[i]) % 16) > 15)

\* ADD SP,1 has run on SP = 0x00FF and left SP = 0x0100
C31_CarriedOutOfLowByte ==
  /\ Len(trace) = 1
  /\ Ran(Last) /\ Last.opcode = 232
  /\ Last.before.stack_pointer = 255
  /\ ImmediateOf(Last) = 1
  /\ Last.after.stack_pointer = 256

AddHlOpcodes == { 9, 25, 41, 57 }
\* The word ADD HL,ss adds: BC, DE, HL or SP
PairValue(s, code) ==
  CASE code = 0 -> 256 * s.registers["B"] + s.registers["C"]
    [] code = 1 -> 256 * s.registers["D"] + s.registers["E"]
    [] code = 2 -> HlOf(s)
    [] code = 3 -> s.stack_pointer

\* C32: for every HL, every operand pair and every state of the flags,
\* ADD HL,ss leaves Z as it was before the instruction and N = 0, with
\* HL = (HL + ss) mod 65536.
C32_AddHlKeepsZero ==
  \A i \in 1..Len(trace) :
    Ran(trace[i]) /\ trace[i].opcode \in AddHlOpcodes =>
      /\ FlagIn(trace[i].after, Flag_Z) = FlagIn(trace[i].before, Flag_Z)
      /\ ~FlagIn(trace[i].after, Flag_N)
      /\ HlOf(trace[i].after)
           = (HlOf(trace[i].before)
                + PairValue(trace[i].before, (trace[i].opcode \div 16) % 4)) % 65536

\* ADD HL,BC has run on HL = 0x0001 and BC = 0x00FF with Z set before
C32_AddedUnderZero ==
  /\ Len(trace) = 1
  /\ Ran(Last) /\ Last.opcode = 9
  /\ FlagIn(Last.before, Flag_Z)
  /\ HlOf(Last.before) = 1
  /\ PairValue(Last.before, 0) = 255
  /\ HlOf(Last.after) = 256

\* C33: one step that executes ADD SP,e costs exactly 4 cycles: the fetch of
\* the opcode, the read of the operand and two internal cycles.
C33_AddSpCostsFour ==
  \A i \in 1..Len(trace) :
    Ran(trace[i]) /\ trace[i].opcode = 232 => Costs(trace[i], 4)

\* ADD SP,1 has run on SP = 0 from a zeroed cycle counter
C33_AddSpRan ==
  /\ Len(trace) = 1
  /\ Ran(Last) /\ Last.opcode = 232
  /\ Last.before.cycles_processed = 0
  /\ Last.before.stack_pointer = 0
  /\ ImmediateOf(Last) = 1
  /\ Last.after.stack_pointer = 1

(***************************************************************************)
(* The loads that step HL.                                                 *)
(***************************************************************************)
\* LD (HL+),A and LD A,(HL+); LD (HL-),A and LD A,(HL-)
HlIncOpcodes == { 34, 42 }
HlDecOpcodes == { 50, 58 }
HlStoreOpcodes == { 34, 50 }

\* C34: for every HL in 0..0xFFFF, LD A,(HL+) and LD (HL+),A access the
\* byte at the old HL and leave HL = (old HL + 1) mod 65536, and LD A,(HL-)
\* and LD (HL-),A access the byte at the old HL and leave
\* HL = (old HL - 1) mod 65536; none fails at HL = 0 or at HL = 0xFFFF.
C34_HlStepsAndWraps ==
  \A i \in 1..Len(trace) :
    Fetched(trace[i], trace[i].opcode)
      /\ trace[i].opcode \in HlIncOpcodes \cup HlDecOpcodes =>
      /\ trace[i].err = Ok
      /\ HlOf(trace[i].after)
           = (HlOf(trace[i].before)
                + (IF trace[i].opcode \in HlIncOpcodes THEN 1 ELSE 65535)) % 65536
      /\ IF trace[i].opcode \in HlStoreOpcodes
         THEN Memory(trace[i].after, HlOf(trace[i].before))
                = trace[i].before.registers["A"]
         ELSE trace[i].after.registers["A"]
                = Memory(trace[i].before, HlOf(trace[i].before))

\* LD A,(HL-) was fetched with HL = 0, where the bus holds 0x5A
C34_SteppedDownFromZero ==
  /\ Len(trace) = 1
  /\ Fetched(Last, 58)
  /\ HlOf(Last.before) = 0
  /\ Memory(Last.before, 0) = 90

(***************************************************************************)
(* CPL, CCF, SCF and STOP.                                                 *)
(***************************************************************************)
\* C35: for every A and every state of the flags, CPL leaves in A its
\* bitwise complement with N = 1 and H = 1 and Z and CY as they were, so
\* CPL twice restores A and ends with N = 1, H = 1 and the Z and CY from
\* before the first.
C35_ComplementSetsNAndH ==
  /\ \A i \in 1..Len(trace) :
       Ran(trace[i]) /\ trace[i].opcode = 47 =>
         /\ trace[i].after.registers["A"] = 255 - trace[i].before.registers["A"]
         /\ FlagsOf(trace[i].after)
              = << FlagIn(trace[i].before, Flag_Z), TRUE, TRUE,
                   FlagIn(trace[i].before, Flag_CY) >>
  /\ Len(trace) = 2 /\ Ran(trace[1]) /\ trace[1].opcode = 47
       /\ Ran(trace[2]) /\ trace[2].opcode = 47 =>
       /\ trace[2].after.registers["A"] = trace[1].before.registers["A"]
       /\ FlagsOf(trace[2].after)
            = << FlagIn(trace[1].before, Flag_Z), TRUE, TRUE,
                 FlagIn(trace[1].before, Flag_CY) >>

\* CPL has run twice on A = 0x35 with every flag clear before
C35_ComplementedTwice ==
  /\ Len(trace) = 2
  /\ Ran(trace[1]) /\ trace[1].opcode = 47
  /\ Ran(trace[2]) /\ trace[2].opcode = 47
  /\ trace[1].before.registers["A"] = 53
  /\ FlagsOf(trace[1].before) = << FALSE, FALSE, FALSE, FALSE >>
  /\ trace[1].after.registers["A"] = 202
  /\ trace[2].after.registers["A"] = 53

\* C36: for every state of the flags, CCF inverts CY and SCF sets CY, and
\* both finish with N = 0 and H = 0 and leave Z and A as they were.
C36_CarryOpsClearNAndH ==
  \A i \in 1..Len(trace) :
    Ran(trace[i]) /\ trace[i].opcode \in { 55, 63 } =>
      /\ FlagsOf(trace[i].after)
           = << FlagIn(trace[i].before, Flag_Z), FALSE, FALSE,
                trace[i].opcode = 55 \/ ~FlagIn(trace[i].before, Flag_CY) >>
      /\ trace[i].after.registers["A"] = trace[i].before.registers["A"]

\* CCF has run with N, H and CY set before
C36_FlippedUnderNAndH ==
  /\ Len(trace) = 1
  /\ Ran(Last) /\ Last.opcode = 63
  /\ FlagsOf(Last.before) = << FALSE, TRUE, TRUE, TRUE >>
  /\ ~FlagIn(Last.after, Flag_CY)

\* C37: STOP at address P consumes the byte that follows it: after the step
\* PC = P + 2 and the mode is Stop.
C37_StopConsumesNextByte ==
  \A i \in 1..Len(trace) :
    Ran(trace[i]) /\ trace[i].opcode = 16 =>
      /\ trace[i].after.program_counter
           = (trace[i].before.program_counter + 2) % 65536
      /\ trace[i].after.state = "Stop"

\* STOP has run at 0x0100 with a byte behind it, and the mode is Stop
C37_Stopped ==
  /\ Len(trace) = 1
  /\ Ran(Last) /\ Last.opcode = 16
  /\ Last.before.program_counter = PROGRAM_COUNTER_START
  /\ Memory(Last.before, PROGRAM_COUNTER_START + 1) = 0
  /\ Last.after.state = "Stop"

(***************************************************************************)
(* CALL cc,nn with a false condition.                                      *)
(***************************************************************************)
CALL_cc == { 196, 204, 212, 220 }

\* C38: CALL cc,nn at address P with a false condition leaves PC = P + 3,
\* the two operand bytes skipped, so that the next step does not decode an
\* operand byte as an opcode, and leaves SP and the stack memory unchanged.
C38_UntakenCallSkipsOperand ==
  \A i \in 1..Len(trace) :
    Ran(trace[i]) /\ trace[i].opcode \in CALL_cc /\ Untaken(trace[i]) =>
      /\ trace[i].after.program_counter
           = (trace[i].before.program_counter + 3) % 65536
      /\ trace[i].after.stack_pointer = trace[i].before.stack_pointer
      /\ trace[i].after.components = trace[i].before.components
      /\ i < Len(trace) =>
           trace[i + 1].before.program_counter
             = (trace[i].before.program_counter + 3) % 65536

\* CALL Z,0x0110 has run at 0x0100 with Z clear, and a second step followed
C38_CallNotTaken ==
  /\ Len(trace) = 2
  /\ Ran(trace[1]) /\ trace[1].opcode = 204
  /\ Untaken(trace[1])
  /\ trace[1].before.program_counter = PROGRAM_COUNTER_START
  /\ trace[1].after.stack_pointer = trace[1].before.stack_pointer
  /\ trace[2].opcode # -1

(***************************************************************************)
(* Emulator::add_signed, as ADD SP,e and LDHL SP,e call it: the base is    *)
(* SP, the delta the operand byte as an i8, and the value returned goes to *)
(* SP or to HL.                                                            *)
(***************************************************************************)
\* C39: for every 16-bit base and every signed delta in -128..127, -128
\* included, add_signed completes without failing, returns
\* (base + delta) mod 65536 and leaves N = 0.
C39_AddSignedTotal ==
  \A i \in 1..Len(trace) :
    Fetched(trace[i], trace[i].opcode) /\ trace[i].opcode \in AddSpOpcodes =>
      /\ trace[i].err = Ok
      /\ (IF trace[i].opcode = 232 THEN trace[i].after.stack_pointer
          ELSE HlOf(trace[i].after))
           = (trace[i].before.stack_pointer + Signed(ImmediateOf(trace[i]))) % 65536
      /\ ~FlagIn(trace[i].after, Flag_N)

\* ADD SP,-128 was fetched with SP = 0x00FF
C39_MinusOneHundredTwentyEight ==
  /\ Len(trace) = 1
  /\ Fetched(Last, 232)
  /\ Last.before.stack_pointer = 255
  /\ ImmediateOf(Last) = 128

(***************************************************************************)
(* Pattern expansion.                                                      *)
(***************************************************************************)
\* The characters of a template but its spaces
Characters(template) == SelectSeq(template, LAMBDA c : c /= " ")
\* Bit p of a byte, counted from the most significant bit as character 1
BitAt(byte, p) == (byte \div Pow2(TemplateWidth - p)) % 2
\* The positions a letter takes in a template, and the number it spells in
\* a byte
PositionsOf(s, letter) == { p \in 1..Len(s) : s[p] = letter }
RECURSIVE FieldValue(_, _)
FieldValue(byte, positions) ==
  IF positions = {} THEN 0
  ELSE LET p == CHOOSE q \in positions : \A other \in positions : q >= other
       IN 2 * FieldValue(byte, positions \ { p }) + BitAt(byte, p)
\* The bytes a template admits: the literal bits as written, and no
\* register field spelling 110
Admitted(s) ==
  { byte \in Byte :
      /\ \A p \in 1..Len(s) :
           /\ s[p] = "0" => BitAt(byte, p) = 0
           /\ s[p] = "1" => BitAt(byte, p) = 1
      /\ \A letter \in { "r", "q" } :
           PositionsOf(s, letter) # {} => FieldValue(byte, PositionsOf(s, letter)) # 6 }
\* How many codes the field of a letter ranges over; 1 for a letter the
\* template lacks
Codes(s, letter) ==
  IF PositionsOf(s, letter) = {} THEN 1
  ELSE IF letter \in { "r", "q" } THEN 7
  ELSE IF letter \in { "s", "d", "c" } THEN 4
  ELSE 8
Expected(s) ==
  Codes(s, "r") * Codes(s, "q") * Codes(s, "s") * Codes(s, "d") * Codes(s, "c")
    * Codes(s, "b") * Codes(s, "t")

\* C40: for every 8-bit template, pattern expansion terminates and returns,
\* each byte once, exactly the bytes that match the literal bits of the
\* template with every rrr and qqq field over the seven register codes
\* (never 110), every ss, dd and cc field over all four codes and every bbb
\* and ttt field over all eight: 1 byte for a literal template, 7 for one
\* register field, 49 for two, 4 for one pair field, 16 for two.
C40_PatternExpansion ==
  result.op = "opcodes" =>
    /\ ~result.returned.panic
    /\ result.returned.opcodes = Admitted(Characters(result.template))
    /\ Cardinality(result.returned.opcodes) = Expected(Characters(result.template))

\* "01 rrr qqq" has been expanded into 49 bytes, 0x40 and 0x7F among them
\* and 0x76 not
C40_TwoRegisterFields ==
  /\ result.op = "opcodes"
  /\ result.template = << "0", "1", " ", "r", "r", "r", " ", "q", "q", "q" >>
  /\ Cardinality(result.returned.opcodes) = 49
  /\ { 64, 127 } \subseteq result.returned.opcodes
  /\ 118 \notin result.returned.opcodes
====
